---------------------------- MODULE Spec2Model ----------------------------
(***************************************************************************)
(* NewsService (cpp_backend/src/services/news_service.cpp): the feed       *)
(* registry, the response cache and the aggregation pass getLatestNews.    *)
(*                                                                         *)
(* Strings are sequences of tokens (letters, markup tags, blanks), so that *)
(* concatenation, tag stripping and hashing are computed.  An HTTP         *)
(* response is what performHttpRequest returns; the response body is the   *)
(* parsed shape of the document (root element, channel, items).  The clock *)
(* time(nullptr) is the variable now; a handler runs within one reading.   *)
(***************************************************************************)
EXTENDS Integers, Sequences, FiniteSets, TLC

VARIABLES
    feeds_,                 \* std::vector<Feed> feeds_
    news_cache_,            \* std::map<std::string, CacheEntry> news_cache_
    cache_ttl_seconds_,     \* int cache_ttl_seconds_
    max_articles_per_feed_, \* int max_articles_per_feed_
    now,                    \* the value time(nullptr) returns
    sort_ties,              \* how this build's std::sort orders equivalent elements
    world,                  \* which documents the servers hold and which arguments the callers pass
    call,                   \* the last handler invocation: arguments, locals, result
    passes,                 \* how many times getLatestNews has run
    threads,                \* the calling threads: the call each is in and where in it
    mutexes                 \* the owner of feeds_mutex_ and of cache_mutex_

vars == <<feeds_, news_cache_, cache_ttl_seconds_, max_articles_per_feed_,
          now, sort_ties, world, call, passes, threads, mutexes>>

\* what a handler called alone, from its entry to its return, leaves as it is
sync == <<threads, mutexes>>

----------------------------------------------------------------------------
(* Bounds of the exploration *)

\* aggregation passes per run
MaxPasses == 2

\* the clock reading at construction
StartTime == 1000

\* calls the threads make altogether
MaxCalls == 3

\* items per generated large document (world "large")
LargeItems == 60

(* Program constants *)

\* std::max(300, ...) in initialize and setCacheTTL
MinTTL == 300
\* constructor defaults
DefaultTTL == 1800
DefaultMaxArticles == 50
\* std::min(max_articles_per_feed, 200)
MaxArticlesCeiling == 200
\* all_articles.resize(100)
GlobalCap == 100

\* clock instants explored: start-up and the instants around the TTL floor
Times == {StartTime, StartTime + MinTTL - 1, StartTime + MinTTL, StartTime + MinTTL + 1}

----------------------------------------------------------------------------
(* Sequences *)

Range(s) == {s[i] : i \in 1..Len(s)}

Reverse(s) == [i \in 1..Len(s) |-> s[Len(s) + 1 - i]]

\* the smaller in place of the larger
MaxAsMin(a, b) == IF a <= b THEN a ELSE b

Max(a, b) == IF a >= b THEN a ELSE b

Min(a, b) == IF a <= b THEN a ELSE b

\* e, with v computed before it (the two halves of a long loop in sequence)
Then(v, e) == IF v = v THEN e ELSE e

----------------------------------------------------------------------------
(* Text *)

Letters == {"a", "b", "c", "d", "e", "x", "y", "z"}
Tags == {"<b>", "</b>"}
Blank == " "

CharCode(c) ==
    CASE c = "a" -> 1 [] c = "b" -> 2 [] c = "c" -> 3 [] c = "d" -> 4
      [] c = "e" -> 5 [] c = "x" -> 6 [] c = "y" -> 7 [] c = "z" -> 8
      [] c = " " -> 9 [] c = "<b>" -> 10 [] c = "</b>" -> 11
      [] c = "https://rss.cnn.com/rss/edition.rss" -> 12
      [] c = "https://feeds.bbci.co.uk/news/world/rss.xml" -> 13
      [] c = "https://techcrunch.com/feed/" -> 14
      [] c = "https://www.reddit.com/r/technology/.rss" -> 15
      [] c = "https://example.org/feed.xml" -> 16

\* std::hash<std::string>: a deterministic map of the characters to a number
RECURSIVE hasher(_)
hasher(s) ==
    IF s = <<>> THEN 7
    ELSE (hasher(SubSeq(s, 1, Len(s) - 1)) * 31 + CharCode(s[Len(s)])) % 1048576

RemoveTags(s) == SelectSeq(s, LAMBDA c : c \notin Tags)

RECURSIVE CollapseBlanks(_)
CollapseBlanks(s) ==
    IF Len(s) < 2 THEN s
    ELSE IF s[1] = Blank /\ s[2] = Blank THEN CollapseBlanks(Tail(s))
    ELSE <<s[1]>> \o CollapseBlanks(Tail(s))

RECURSIVE TrimLeft(_)
TrimLeft(s) == IF s # <<>> /\ s[1] = Blank THEN TrimLeft(Tail(s)) ELSE s

Trim(s) == Reverse(TrimLeft(Reverse(TrimLeft(s))))

stripHtmlTags(text) ==
    IF text = <<>> THEN text ELSE Trim(CollapseBlanks(RemoveTags(text)))

generateArticleId(title, link) == hasher(title \o link)

generateCacheKey(feed_url) == <<"feed:", hasher(feed_url)>>

----------------------------------------------------------------------------
(* Dates *)

\* the text of a pubDate / updated / published element: its format and, when
\* it has one of the three formats strptime is tried with, the instant it names
DateText(fmt, t) == [fmt |-> fmt, t |-> t]

NoDate == DateText("", 0)

\* the seconds of a day
Day == 86400

\* strptime(date_str, format, &tm) followed by mktime(&tm): whether the text
\* begins with the format and the instant read. A text in ISO-8601 begins
\* with a bare date, which names the start of its day; no other text begins
\* with another format than its own.
strptime(date_str, format) ==
    IF date_str.fmt = format THEN [matched |-> TRUE, t |-> date_str.t]
    ELSE IF date_str.fmt = "iso8601" /\ format = "date"
    THEN [matched |-> TRUE, t |-> date_str.t - (date_str.t % Day)]
    ELSE [matched |-> FALSE, t |-> 0]

parseDate(date_str, t_now) ==
    IF date_str.fmt = "" THEN t_now
    ELSE IF strptime(date_str, "rfc822").matched THEN strptime(date_str, "rfc822").t
    ELSE IF strptime(date_str, "iso8601").matched THEN strptime(date_str, "iso8601").t
    ELSE IF strptime(date_str, "date").matched THEN strptime(date_str, "date").t
    ELSE t_now

----------------------------------------------------------------------------
(* Documents and HTTP responses *)

\* an <item> (RSS) or <entry> (Atom): the texts of its child elements
Item(title, link, pubDate) ==
    [title |-> title, link |-> link, pubDate |-> pubDate,
     updated |-> NoDate, published |-> NoDate]

Entry(title, href, updated, published) ==
    [title |-> title, link |-> href, pubDate |-> NoDate,
     updated |-> updated, published |-> published]

\* a response body: its root element with the attributes of the root's start
\* tag, the substrings detectFeedType looks for that occur elsewhere in the
\* text (comments, CDATA, other tags), whether tinyxml2 parses it, and the
\* channel / feed content. The has_ fields say what std::string::find finds in
\* the whole text.
Document(sig, wellformed, root, root_attrs, has_channel, title, items) ==
    [has_rss_tag |-> root = "rss" \/ "<rss" \in sig,
     has_version_2_0 |-> "version=\"2.0\"" \in root_attrs \cup sig,
     has_feed_tag |-> root = "feed" \/ "<feed" \in sig,
     has_atom_ns |-> "xmlns=\"http://www.w3.org/2005/Atom\"" \in root_attrs \cup sig,
     wellformed |-> wellformed, root |-> root, root_attrs |-> root_attrs,
     elsewhere |-> sig,
     has_channel |-> has_channel, title |-> title, items |-> items]

Rss20Doc(title, items) ==
    Document({}, TRUE, "rss", {"version=\"2.0\""}, TRUE, title, items)

Rss10Doc(title, items) == Document({}, TRUE, "rss", {}, TRUE, title, items)

AtomDoc(title, items) ==
    Document({}, TRUE, "feed", {"xmlns=\"http://www.w3.org/2005/Atom\""},
             FALSE, title, items)

MalformedDoc == Document({}, FALSE, "rss", {"version=\"2.0\""}, TRUE, <<>>, <<>>)

HtmlDoc == Document({}, TRUE, "html", {}, FALSE, <<>>, <<>>)

\* HttpResponse as performHttpRequest returns it
HttpResponse(success, status_code, data) ==
    [success |-> success, status_code |-> status_code, data |-> data]

HttpOk(doc) == HttpResponse(TRUE, 200, doc)

HttpStatus(code) == HttpResponse(TRUE, code, HtmlDoc)

\* curl_easy_perform failed: status 0, the body is curl's error text
TransportFailure == HttpResponse(FALSE, 0, HtmlDoc)

detectFeedType(xml_content) ==
    IF xml_content.has_rss_tag
    THEN IF xml_content.has_version_2_0 THEN "RSS_2_0" ELSE "RSS_1_0"
    ELSE IF xml_content.has_feed_tag /\ xml_content.has_atom_ns THEN "ATOM_1_0"
    ELSE "UNKNOWN"

----------------------------------------------------------------------------
(* Articles and the parsers *)

NewsArticle(id, title, link, source, published_date, cached_at) ==
    [id |-> id, title |-> title, link |-> link, source |-> source,
     published_date |-> published_date, cached_at |-> cached_at]

\* the body of the for loop of parseRSSFeed for one item
RssArticle(item, feed_title, feed_info, t_now) ==
    LET title == stripHtmlTags(item.title)
        link == item.link
    IN NewsArticle(generateArticleId(title, link), title, link,
                   IF feed_title = <<>> THEN feed_info.url ELSE feed_title,
                   parseDate(item.pubDate, t_now), t_now)

\* the body of the for loop of parseAtomFeed for one entry
AtomArticle(entry, feed_title, feed_info, t_now) ==
    LET title == stripHtmlTags(entry.title)
        link == entry.link
        pub_date == IF entry.updated.fmt = "" THEN entry.published ELSE entry.updated
    IN NewsArticle(generateArticleId(title, link), title, link,
                   IF feed_title = <<>> THEN feed_info.url ELSE feed_title,
                   parseDate(pub_date, t_now), t_now)

\* the loop condition without the test of the size
LoopContinuesToEnd(items, i, articles, max_articles) == i <= Len(items)

\* the loop condition: more elements and articles.size() < max_articles_per_feed_
LoopContinues(items, i, articles, max_articles) ==
    i <= Len(items) /\ Len(articles) < max_articles

\* the test of line 338 without the link
AcceptedWithTitle(article) == article.title # <<>>

Accepted(article) == article.title # <<>> /\ article.link # <<>>

\* the for loop of parseRSSFeed over items lo..hi (in document order, the
\* range is halved to keep the evaluation shallow)
RECURSIVE RssItems(_, _, _, _, _, _, _, _)
RssItems(items, lo, hi, articles, feed_title, feed_info, max_articles, t_now) ==
    IF lo > hi THEN articles
    ELSE IF lo = hi
    THEN IF ~LoopContinues(items, lo, articles, max_articles) THEN articles
         ELSE LET article == RssArticle(items[lo], feed_title, feed_info, t_now)
              IN IF Accepted(article) THEN Append(articles, article) ELSE articles
    ELSE LET mid == (lo + hi) \div 2
             first == RssItems(items, lo, mid, articles, feed_title, feed_info,
                               max_articles, t_now)
         IN Then(first, RssItems(items, mid + 1, hi, first, feed_title, feed_info,
                                 max_articles, t_now))

parseRSSFeed(xml_content, feed_info, max_articles, t_now) ==
    IF ~xml_content.wellformed THEN <<>>
    ELSE IF xml_content.root # "rss" THEN <<>>
    ELSE IF ~xml_content.has_channel THEN <<>>
    ELSE RssItems(xml_content.items, 1, Len(xml_content.items), <<>>,
                  xml_content.title, feed_info, max_articles, t_now)

\* the for loop of parseAtomFeed over entries lo..hi
RECURSIVE AtomEntries(_, _, _, _, _, _, _, _)
AtomEntries(items, lo, hi, articles, feed_title, feed_info, max_articles, t_now) ==
    IF lo > hi THEN articles
    ELSE IF lo = hi
    THEN IF ~LoopContinues(items, lo, articles, max_articles) THEN articles
         ELSE LET article == AtomArticle(items[lo], feed_title, feed_info, t_now)
              IN IF Accepted(article) THEN Append(articles, article) ELSE articles
    ELSE LET mid == (lo + hi) \div 2
             first == AtomEntries(items, lo, mid, articles, feed_title, feed_info,
                                  max_articles, t_now)
         IN Then(first, AtomEntries(items, mid + 1, hi, first, feed_title, feed_info,
                                    max_articles, t_now))

parseAtomFeed(xml_content, feed_info, max_articles, t_now) ==
    IF ~xml_content.wellformed THEN <<>>
    ELSE IF xml_content.root # "feed" THEN <<>>
    ELSE AtomEntries(xml_content.items, 1, Len(xml_content.items), <<>>,
                     xml_content.title, feed_info, max_articles, t_now)

----------------------------------------------------------------------------
(* The response cache *)

CacheEntry(articles, cached_at, expires_at) ==
    [articles |-> articles, cached_at |-> cached_at, expires_at |-> expires_at]

\* is_expired with >= for >
is_expired_at_expiry(entry, t_now) == t_now >= entry.expires_at

is_expired(entry, t_now) == t_now > entry.expires_at

\* a std::map without entries
EmptyCache == [k \in {} |-> k]

\* std::map::erase(key)
Erase(cache, key) == [k \in DOMAIN cache \ {key} |-> cache[k]]

\* getCachedNews erasing every expired entry when the lookup finds none to return
getCachedNewsSweeping(cache, cache_key, t_now) ==
    IF cache_key \in DOMAIN cache /\ t_now <= cache[cache_key].expires_at
    THEN [articles |-> cache[cache_key].articles, cache |-> cache]
    ELSE [articles |-> <<>>,
          cache |-> [k \in {x \in DOMAIN cache : t_now <= cache[x].expires_at}
                       |-> cache[k]]]

\* getCachedNews restarting the lifetime of the entry it returns
getCachedNewsExtending(cache, cache_key, t_now) ==
    IF cache_key \in DOMAIN cache
    THEN IF ~is_expired(cache[cache_key], t_now)
         THEN [articles |-> cache[cache_key].articles,
               cache |-> [cache EXCEPT ![cache_key] =
                            CacheEntry(@.articles, t_now,
                                       t_now + (@.expires_at - @.cached_at))]]
         ELSE [articles |-> <<>>, cache |-> Erase(cache, cache_key)]
    ELSE [articles |-> <<>>, cache |-> cache]

\* getCachedNews: the articles returned, and the cache it leaves
getCachedNews(cache, cache_key, t_now) ==
    IF cache_key \in DOMAIN cache
    THEN IF ~is_expired(cache[cache_key], t_now)
         THEN [articles |-> cache[cache_key].articles, cache |-> cache]
         ELSE [articles |-> <<>>, cache |-> Erase(cache, cache_key)]
    ELSE [articles |-> <<>>, cache |-> cache]

\* setCachedNews: the cache after news_cache_[cache_key] = entry
\* setCachedNews with map::insert, which keeps an entry that is there
setCachedNewsIfAbsent(cache, cache_key, articles, ttl, t_now) ==
    [k \in DOMAIN cache \cup {cache_key} |->
        IF k \in DOMAIN cache THEN cache[k]
        ELSE CacheEntry(articles, t_now, t_now + ttl)]

setCachedNews(cache, cache_key, articles, ttl, t_now) ==
    [k \in DOMAIN cache \cup {cache_key} |->
        IF k = cache_key THEN CacheEntry(articles, t_now, t_now + ttl)
        ELSE cache[k]]

----------------------------------------------------------------------------
(* The feed registry *)

\* Feed(feed_url): the constructor
Feed(feed_url) ==
    [url |-> feed_url, last_error |-> "", last_updated |-> 0,
     last_fetch_attempt |-> 0, is_active |-> TRUE]

\* one text for every failure
HttpErrorTextOfParse(status_code) == "Failed to parse feed content"

HttpErrorText(status_code) ==
    IF status_code = 0 THEN "HTTP error: 0"
    ELSE IF status_code = 404 THEN "HTTP error: 404"
    ELSE IF status_code = 500 THEN "HTTP error: 500"
    ELSE "HTTP error: other"

----------------------------------------------------------------------------
(* getLatestNews *)

\* AfterFetch erasing the entry of a feed whose refresh fails
AfterFetchErasing(feed, cache, cache_key, response, ttl, max_articles, t_now) ==
    LET attempted == [feed EXCEPT !.last_fetch_attempt = t_now]
    IN IF response.success /\ response.status_code = 200
       THEN LET type == detectFeedType(response.data)
                articles ==
                    IF type = "RSS_2_0" \/ type = "RSS_1_0"
                    THEN parseRSSFeed(response.data, attempted, max_articles, t_now)
                    ELSE IF type = "ATOM_1_0"
                    THEN parseAtomFeed(response.data, attempted, max_articles, t_now)
                    ELSE <<>>
            IN IF articles # <<>>
               THEN [feed |-> [attempted EXCEPT !.last_updated = t_now,
                                                !.last_error = ""],
                     cache |-> setCachedNews(cache, cache_key, articles, ttl, t_now),
                     articles |-> articles, stored |-> TRUE]
               ELSE [feed |-> [attempted EXCEPT
                                 !.last_error = "Failed to parse feed content"],
                     cache |-> Erase(cache, cache_key), articles |-> <<>>,
                     stored |-> FALSE]
       ELSE [feed |-> [attempted EXCEPT
                         !.last_error = HttpErrorText(response.status_code)],
             cache |-> Erase(cache, cache_key), articles |-> <<>>, stored |-> FALSE]

\* AfterFetch switching off a feed whose refresh fails
AfterFetchDisabling(feed, cache, cache_key, response, ttl, max_articles, t_now) ==
    LET attempted == [feed EXCEPT !.last_fetch_attempt = t_now]
    IN IF response.success /\ response.status_code = 200
       THEN LET type == detectFeedType(response.data)
                articles ==
                    IF type = "RSS_2_0" \/ type = "RSS_1_0"
                    THEN parseRSSFeed(response.data, attempted, max_articles, t_now)
                    ELSE IF type = "ATOM_1_0"
                    THEN parseAtomFeed(response.data, attempted, max_articles, t_now)
                    ELSE <<>>
            IN IF articles # <<>>
               THEN [feed |-> [attempted EXCEPT !.last_updated = t_now,
                                                !.last_error = ""],
                     cache |-> setCachedNews(cache, cache_key, articles, ttl, t_now),
                     articles |-> articles, stored |-> TRUE]
               ELSE [feed |-> [attempted EXCEPT
                                 !.last_error = "Failed to parse feed content",
                                 !.is_active = FALSE],
                     cache |-> cache, articles |-> <<>>, stored |-> FALSE]
       ELSE [feed |-> [attempted EXCEPT
                         !.last_error = HttpErrorText(response.status_code),
                         !.is_active = FALSE],
             cache |-> cache, articles |-> <<>>, stored |-> FALSE]

\* AfterFetch storing whatever list the parser returns
AfterFetchStoringEmpty(feed, cache, cache_key, response, ttl, max_articles, t_now) ==
    LET attempted == [feed EXCEPT !.last_fetch_attempt = t_now]
    IN IF response.success /\ response.status_code = 200
       THEN LET type == detectFeedType(response.data)
                articles ==
                    IF type = "RSS_2_0" \/ type = "RSS_1_0"
                    THEN parseRSSFeed(response.data, attempted, max_articles, t_now)
                    ELSE IF type = "ATOM_1_0"
                    THEN parseAtomFeed(response.data, attempted, max_articles, t_now)
                    ELSE <<>>
            IN [feed |-> IF articles # <<>>
                         THEN [attempted EXCEPT !.last_updated = t_now,
                                                !.last_error = ""]
                         ELSE [attempted EXCEPT
                                 !.last_error = "Failed to parse feed content"],
                cache |-> setCachedNews(cache, cache_key, articles, ttl, t_now),
                articles |-> articles, stored |-> articles # <<>>]
       ELSE [feed |-> [attempted EXCEPT
                         !.last_error = HttpErrorText(response.status_code)],
             cache |-> cache, articles |-> <<>>, stored |-> FALSE]

\* AfterFetch giving the articles of the cache entry when the refresh fails
AfterFetchFallingBack(feed, cache, cache_key, response, ttl, max_articles, t_now) ==
    LET attempted == [feed EXCEPT !.last_fetch_attempt = t_now]
    IN IF response.success /\ response.status_code = 200
       THEN LET type == detectFeedType(response.data)
                articles ==
                    IF type = "RSS_2_0" \/ type = "RSS_1_0"
                    THEN parseRSSFeed(response.data, attempted, max_articles, t_now)
                    ELSE IF type = "ATOM_1_0"
                    THEN parseAtomFeed(response.data, attempted, max_articles, t_now)
                    ELSE <<>>
            IN IF articles # <<>>
               THEN [feed |-> [attempted EXCEPT !.last_updated = t_now,
                                                !.last_error = ""],
                     cache |-> setCachedNews(cache, cache_key, articles, ttl, t_now),
                     articles |-> articles, stored |-> TRUE]
               ELSE [feed |-> [attempted EXCEPT
                                 !.last_error = "Failed to parse feed content"],
                     cache |-> cache,
                     articles |-> IF cache_key \in DOMAIN cache
                                  THEN cache[cache_key].articles ELSE <<>>,
                     stored |-> FALSE]
       ELSE [feed |-> [attempted EXCEPT
                         !.last_error = HttpErrorText(response.status_code)],
             cache |-> cache,
             articles |-> IF cache_key \in DOMAIN cache
                          THEN cache[cache_key].articles ELSE <<>>,
             stored |-> FALSE]

\* lines 160-180: what a response does to the feed and to the cache
AfterFetch(feed, cache, cache_key, response, ttl, max_articles, t_now) ==
    LET attempted == [feed EXCEPT !.last_fetch_attempt = t_now]
    IN IF response.success /\ response.status_code = 200
       THEN LET type == detectFeedType(response.data)
                articles ==
                    IF type = "RSS_2_0" \/ type = "RSS_1_0"
                    THEN parseRSSFeed(response.data, attempted, max_articles, t_now)
                    ELSE IF type = "ATOM_1_0"
                    THEN parseAtomFeed(response.data, attempted, max_articles, t_now)
                    ELSE <<>>
            IN IF articles # <<>>
               THEN [feed |-> [attempted EXCEPT !.last_updated = t_now,
                                                !.last_error = ""],
                     cache |-> setCachedNews(cache, cache_key, articles, ttl, t_now),
                     articles |-> articles, stored |-> TRUE]
               ELSE [feed |-> [attempted EXCEPT
                                 !.last_error = "Failed to parse feed content"],
                     cache |-> cache, articles |-> <<>>, stored |-> FALSE]
       ELSE [feed |-> [attempted EXCEPT
                         !.last_error = HttpErrorText(response.status_code)],
             cache |-> cache, articles |-> <<>>, stored |-> FALSE]

\* Lookup without the test of force_refresh
LookupIgnoringForce(cache, cache_key, force_refresh, t_now) ==
    getCachedNews(cache, cache_key, t_now)

\* Lookup with the test of force_refresh inverted
LookupInverted(cache, cache_key, force_refresh, t_now) ==
    IF force_refresh THEN getCachedNews(cache, cache_key, t_now)
    ELSE [articles |-> <<>>, cache |-> cache]

\* the cache lookup of lines 151-153
Lookup(cache, cache_key, force_refresh, t_now) ==
    IF ~force_refresh THEN getCachedNews(cache, cache_key, t_now)
    ELSE [articles |-> <<>>, cache |-> cache]

\* FeedStep without the test of is_active
FeedStepOfAnyFeed(st, i, force_refresh, responses, ttl, max_articles, t_now) ==
    LET feed == st.feeds[i]
        cache_key == generateCacheKey(feed.url)
        looked == Lookup(st.cache, cache_key, force_refresh, t_now)
    IN IF looked.articles = <<>>
       THEN LET f == AfterFetch(feed, looked.cache, cache_key, responses[i],
                                ttl, max_articles, t_now)
            IN [feeds |-> [st.feeds EXCEPT ![i] = f.feed],
                cache |-> f.cache,
                all_articles |-> st.all_articles \o f.articles,
                fetched |-> st.fetched \cup {feed.url},
                requests |-> Append(st.requests, feed.url),
                stored |-> IF f.stored THEN st.stored \cup {feed.url} ELSE st.stored,
                looked_up |-> IF force_refresh THEN st.looked_up
                              ELSE st.looked_up \cup {cache_key},
                evicted |-> st.evicted \cup (DOMAIN st.cache \ DOMAIN looked.cache)]
       ELSE [st EXCEPT !.cache = looked.cache,
                       !.all_articles = st.all_articles \o looked.articles,
                       !.looked_up = st.looked_up \cup {cache_key}]

\* FeedStep clearing last_error of a feed served from the cache
FeedStepClearingError(st, i, force_refresh, responses, ttl, max_articles, t_now) ==
    LET feed == st.feeds[i]
        cache_key == generateCacheKey(feed.url)
        looked == Lookup(st.cache, cache_key, force_refresh, t_now)
    IN IF ~feed.is_active THEN st
       ELSE IF looked.articles = <<>>
       THEN LET f == AfterFetch(feed, looked.cache, cache_key, responses[i],
                                ttl, max_articles, t_now)
            IN [feeds |-> [st.feeds EXCEPT ![i] = f.feed],
                cache |-> f.cache,
                all_articles |-> st.all_articles \o f.articles,
                fetched |-> st.fetched \cup {feed.url},
                requests |-> Append(st.requests, feed.url),
                stored |-> IF f.stored THEN st.stored \cup {feed.url} ELSE st.stored,
                looked_up |-> IF force_refresh THEN st.looked_up
                              ELSE st.looked_up \cup {cache_key},
                evicted |-> st.evicted \cup (DOMAIN st.cache \ DOMAIN looked.cache)]
       ELSE [st EXCEPT !.cache = looked.cache,
                       !.feeds = [st.feeds EXCEPT ![i].last_error = ""],
                       !.all_articles = st.all_articles \o looked.articles,
                       !.looked_up = st.looked_up \cup {cache_key}]

\* one iteration of the loop over feeds_ (lines 143-185); st holds the
\* registry, the cache and the locals so far (with the URLs asked, as a set
\* and one by one in requests, the URLs stored, and the keys looked up and
\* erased), responses[i] is what the server of
\* feed i answers when asked
FeedStep(st, i, force_refresh, responses, ttl, max_articles, t_now) ==
    LET feed == st.feeds[i]
        cache_key == generateCacheKey(feed.url)
        looked == Lookup(st.cache, cache_key, force_refresh, t_now)
    IN IF ~feed.is_active THEN st
       ELSE IF looked.articles = <<>>
       THEN LET f == AfterFetch(feed, looked.cache, cache_key, responses[i],
                                ttl, max_articles, t_now)
            IN [feeds |-> [st.feeds EXCEPT ![i] = f.feed],
                cache |-> f.cache,
                all_articles |-> st.all_articles \o f.articles,
                fetched |-> st.fetched \cup {feed.url},
                requests |-> Append(st.requests, feed.url),
                stored |-> IF f.stored THEN st.stored \cup {feed.url} ELSE st.stored,
                looked_up |-> IF force_refresh THEN st.looked_up
                              ELSE st.looked_up \cup {cache_key},
                evicted |-> st.evicted \cup (DOMAIN st.cache \ DOMAIN looked.cache)]
       ELSE [st EXCEPT !.cache = looked.cache,
                       !.all_articles = st.all_articles \o looked.articles,
                       !.looked_up = st.looked_up \cup {cache_key}]

\* FeedLoop leaving the loop at the first feed that ends with an error
RECURSIVE FeedLoopAbort(_, _, _, _, _, _, _)
FeedLoopAbort(st, i, force_refresh, responses, ttl, max_articles, t_now) ==
    IF i > Len(st.feeds) THEN st
    ELSE LET next == FeedStep(st, i, force_refresh, responses, ttl, max_articles, t_now)
         IN IF next.feeds[i].last_error # "" THEN next
            ELSE FeedLoopAbort(next, i + 1, force_refresh, responses, ttl,
                               max_articles, t_now)

RECURSIVE FeedLoop(_, _, _, _, _, _, _)
FeedLoop(st, i, force_refresh, responses, ttl, max_articles, t_now) ==
    IF i > Len(st.feeds) THEN st
    ELSE FeedLoop(FeedStep(st, i, force_refresh, responses, ttl, max_articles, t_now),
                  i + 1, force_refresh, responses, ttl, max_articles, t_now)

\* the loop of deduplicateArticles over articles lo..hi; acc holds
\* unique_articles and seen_ids
RECURSIVE deduplicateRange(_, _, _, _)
deduplicateRange(articles, lo, hi, acc) ==
    IF lo > hi THEN acc
    ELSE IF lo = hi
    THEN IF articles[lo].id \notin acc.seen_ids
         THEN [unique_articles |-> Append(acc.unique_articles, articles[lo]),
               seen_ids |-> acc.seen_ids \cup {articles[lo].id}]
         ELSE acc
    ELSE LET mid == (lo + hi) \div 2
             first == deduplicateRange(articles, lo, mid, acc)
         IN Then(first, deduplicateRange(articles, mid + 1, hi, first))

\* deduplicateArticles without the seen_ids test
deduplicateNothing(articles) == articles

\* deduplicateArticles keeping the last instance of every id
deduplicateKeepLast(articles) ==
    Reverse(deduplicateRange(Reverse(articles), 1, Len(articles),
                             [unique_articles |-> <<>>, seen_ids |-> {}]).unique_articles)

deduplicateArticles(articles) ==
    deduplicateRange(articles, 1, Len(articles),
                     [unique_articles |-> <<>>, seen_ids |-> {}]).unique_articles

\* the comparator with the comparison turned round
OlderFirst(a, b) == a.published_date < b.published_date

\* the comparator of the sort: a goes before b
NewerFirst(a, b) == a.published_date > b.published_date

\* insertion of x into a sorted sequence, behind every element that x does
\* not go before
InsertSorted(sorted, x) ==
    LET behind == Cardinality({i \in 1..Len(sorted) : NewerFirst(x, sorted[i])})
        ahead == Len(sorted) - behind
    IN SubSeq(sorted, 1, ahead) \o <<x>> \o SubSeq(sorted, ahead + 1, Len(sorted))

\* s[lo..hi] inserted one after the other into sorted
RECURSIVE InsertionSort(_, _, _, _)
InsertionSort(s, lo, hi, sorted) ==
    IF lo > hi THEN sorted
    ELSE IF lo = hi THEN InsertSorted(sorted, s[lo])
    ELSE LET mid == (lo + hi) \div 2
             first == InsertionSort(s, lo, mid, sorted)
         IN Then(first, InsertionSort(s, mid + 1, hi, first))

\* the sort of the first GlobalCap elements only: the list cut before it is sorted
StdSortOfPrefix(s) ==
    LET prefix == IF Len(s) > GlobalCap THEN SubSeq(s, 1, GlobalCap) ELSE s
    IN IF sort_ties = "input_order" THEN InsertionSort(prefix, 1, Len(prefix), <<>>)
       ELSE InsertionSort(Reverse(prefix), 1, Len(prefix), <<>>)

\* std::sort with NewerFirst: sorted, the order of equivalent elements is
\* whatever the library makes it (sort_ties)
StdSort(s) ==
    IF sort_ties = "input_order" THEN InsertionSort(s, 1, Len(s), <<>>)
    ELSE InsertionSort(Reverse(s), 1, Len(s), <<>>)

\* lines 198-200
Truncate(s) == IF Len(s) > GlobalCap THEN SubSeq(s, 1, GlobalCap) ELSE s

----------------------------------------------------------------------------
(* The servers *)

CNN == <<"https://rss.cnn.com/rss/edition.rss">>
BBC == <<"https://feeds.bbci.co.uk/news/world/rss.xml">>
TECHCRUNCH == <<"https://techcrunch.com/feed/">>
REDDIT == <<"https://www.reddit.com/r/technology/.rss">>
EXAMPLE == <<"https://example.org/feed.xml">>

\* the feeds initialize registers, in order
DefaultFeeds == <<CNN, BBC, TECHCRUNCH, REDDIT>>

\* three items dated 300, 100, 200
CnnDoc ==
    Rss20Doc(<<"c">>,
             <<Item(<<"a">>, <<"x">>, DateText("rfc822", 300)),
               Item(<<"b">>, <<"x">>, DateText("rfc822", 100)),
               Item(<<"c">>, <<"x", "z">>, DateText("rfc822", 200))>>)

\* an Atom feed: the first story of CnnDoc again (title in markup), an entry
\* without link, and one story twice with different dates
BbcDoc ==
    AtomDoc(<<>>,
            <<Entry(<<"<b>", "a", "</b>">>, <<"x">>, DateText("iso8601", 300), NoDate),
              Entry(<<"d">>, <<>>, DateText("iso8601", 300), NoDate),
              Entry(<<" ", "d", " ">>, <<"y">>, NoDate, DateText("date", 200)),
              Entry(<<"d">>, <<"y">>, DateText("iso8601", 100), NoDate)>>)

\* two valid items, between them an item whose title is markup and a blank;
\* the title and link of the first concatenate to the same text as the title
\* and link of CnnDoc's third item
TechcrunchDoc ==
    Rss20Doc(<<"e">>,
             <<Item(<<"c", "x">>, <<"z">>, DateText("rfc822", 200)),
               Item(<<"<b>", " ", "</b>">>, <<"z">>, DateText("rfc822", 300)),
               Item(<<"e">>, <<"z">>, DateText("garbage", 0))>>)

\* an RSS 1.0 feed: the third story of CnnDoc with the same date, and an
\* item without any date
ExampleDoc ==
    Rss10Doc(<<>>,
             <<Item(<<"c">>, <<"x", "z">>, DateText("rfc822", 200)),
               Item(<<"y">>, <<"y">>, NoDate)>>)

\* the number k written in three letters
Numeral(k) ==
    LET digit == <<"a", "b", "c", "d", "e", "x", "y", "z">>
    IN <<digit[((k \div 64) % 8) + 1], digit[((k \div 8) % 8) + 1], digit[(k % 8) + 1]>>

\* item k of a generated document: title k, three dates in rotation
LargeItem(k) == Item(Numeral(k), <<"x">>, DateText("rfc822", (k % 3) * 100))

\* LargeItems items numbered from first
LargeDoc(first) ==
    Rss20Doc(<<>>, [i \in 1..LargeItems |-> LargeItem(first + i - 1)])

\* the states of the network a handler can run in
Conditions == {"up", "degraded"}

\* what the server of a URL answers in a state of the network
ResponseOf(url, condition) ==
    IF world = "large"
    THEN IF url = CNN THEN HttpOk(LargeDoc(1))
         ELSE IF url = BBC
         THEN IF condition = "up" THEN HttpOk(LargeDoc(41)) ELSE HttpStatus(500)
         ELSE IF url = TECHCRUNCH THEN HttpOk(LargeDoc(101))
         ELSE IF url = REDDIT
         THEN IF condition = "up" THEN HttpOk(LargeDoc(161)) ELSE TransportFailure
         ELSE TransportFailure
    ELSE IF url = CNN
    THEN IF condition = "up" THEN HttpOk(CnnDoc) ELSE HttpStatus(500)
    ELSE IF url = BBC
    THEN IF condition = "up" THEN HttpOk(BbcDoc) ELSE HttpOk(MalformedDoc)
    ELSE IF url = TECHCRUNCH THEN HttpOk(TechcrunchDoc)
    ELSE IF url = REDDIT
    THEN IF condition = "up" THEN HttpOk(Rss20Doc(<<"d">>, <<>>)) ELSE TransportFailure
    ELSE IF url = EXAMPLE
    THEN IF condition = "up" THEN HttpOk(ExampleDoc) ELSE HttpOk(HtmlDoc)
    ELSE TransportFailure

\* stands for the response of a server that is not asked
NoRequest == HttpResponse(FALSE, -1, HtmlDoc)

----------------------------------------------------------------------------
(* The handlers *)

\* the record of a handler invocation
Call(op, force_refresh, ret, st, unique_articles, result) ==
    [op |-> op, force_refresh |-> force_refresh, ret |-> ret, count |-> 0,
     all_articles |-> st.all_articles, fetched |-> st.fetched,
     requests |-> st.requests,
     stored |-> st.stored, looked_up |-> st.looked_up, evicted |-> st.evicted,
     unique_articles |-> unique_articles, result |-> result]

NoPass ==
    [all_articles |-> <<>>, fetched |-> {}, requests |-> <<>>, stored |-> {},
     looked_up |-> {}, evicted |-> {}]

Returned(op, ret) == Call(op, FALSE, ret, NoPass, <<>>, <<>>)

\* the threads that call the service
Threads == {"t1", "t2"}

\* no response parsed
NoOutcome == [feed |-> Feed(<<>>), articles |-> <<>>, stored |-> FALSE]

\* a thread that is in no call, after calls calls; ret, result and count are
\* what its last call returned, fetches the requests its passes have made so
\* far, each with the time and whether the list it gave was stored
IdleThread(calls) ==
    [pc |-> "idle", op |-> "none", url |-> <<>>, force_refresh |-> FALSE,
     ttl_seconds |-> 0, i |-> 0, all_articles |-> <<>>, pending |-> <<>>,
     response |-> NoRequest, outcome |-> NoOutcome, ret |-> TRUE,
     result |-> <<>>, count |-> 0, calls |-> calls, fetches |-> <<>>]

\* both mutexes unlocked
NoOwner == [feeds_mutex_ |-> "free", cache_mutex_ |-> "free"]

Init ==
    /\ feeds_ = <<>>
    /\ news_cache_ = EmptyCache
    /\ cache_ttl_seconds_ = DefaultTTL
    /\ max_articles_per_feed_ = DefaultMaxArticles
    /\ now = StartTime
    /\ sort_ties \in {"input_order", "reversed"}
    /\ world = "small"
    /\ call = Returned("NewsService", TRUE)
    /\ passes = 0
    /\ threads = [t \in Threads |-> IdleThread(0)]
    /\ mutexes = NoOwner

Initialize(cache_ttl_seconds, max_articles_per_feed) ==
    /\ cache_ttl_seconds_' = Max(MinTTL, cache_ttl_seconds)
    /\ max_articles_per_feed_' = Max(1, Min(max_articles_per_feed, MaxArticlesCeiling))
    /\ feeds_' = [i \in 1..Len(DefaultFeeds) |-> Feed(DefaultFeeds[i])]
    /\ call' = Returned("initialize", TRUE)
    /\ UNCHANGED <<news_cache_, now, sort_ties, world, passes, sync>>

\* addFeed without the search for the URL in feeds_
AddFeedUnchecked(feed_url, response) ==
    /\ IF feed_url = <<>> THEN
           /\ call' = Returned("addFeed", FALSE)
           /\ UNCHANGED feeds_
       ELSE IF ~response.success \/ response.status_code # 200 THEN
           /\ call' = Returned("addFeed", FALSE)
           /\ UNCHANGED feeds_
       ELSE IF detectFeedType(response.data) = "UNKNOWN" THEN
           /\ call' = Returned("addFeed", FALSE)
           /\ UNCHANGED feeds_
       ELSE
           /\ feeds_' = Append(feeds_, Feed(feed_url))
           /\ call' = Returned("addFeed", TRUE)
    /\ UNCHANGED <<news_cache_, cache_ttl_seconds_, max_articles_per_feed_,
                   now, sort_ties, world, passes, sync>>

AddFeed(feed_url, response) ==
    /\ IF feed_url = <<>> THEN
           /\ call' = Returned("addFeed", FALSE)
           /\ UNCHANGED feeds_
       ELSE IF \E i \in 1..Len(feeds_) : feeds_[i].url = feed_url THEN
           /\ call' = Returned("addFeed", FALSE)
           /\ UNCHANGED feeds_
       ELSE IF ~response.success \/ response.status_code # 200 THEN
           /\ call' = Returned("addFeed", FALSE)
           /\ UNCHANGED feeds_
       ELSE IF detectFeedType(response.data) = "UNKNOWN" THEN
           /\ call' = Returned("addFeed", FALSE)
           /\ UNCHANGED feeds_
       ELSE
           /\ feeds_' = Append(feeds_, Feed(feed_url))
           /\ call' = Returned("addFeed", TRUE)
    /\ UNCHANGED <<news_cache_, cache_ttl_seconds_, max_articles_per_feed_,
                   now, sort_ties, world, passes, sync>>

\* removeFeed without the erase of the cache entry
RemoveFeedKeepingCache(feed_url) ==
    /\ IF \E i \in 1..Len(feeds_) : feeds_[i].url = feed_url THEN
           LET it == CHOOSE i \in 1..Len(feeds_) :
                        /\ feeds_[i].url = feed_url
                        /\ \A j \in 1..(i - 1) : feeds_[j].url # feed_url
           IN /\ feeds_' = SubSeq(feeds_, 1, it - 1) \o SubSeq(feeds_, it + 1, Len(feeds_))
              /\ call' = Returned("removeFeed", TRUE)
              /\ UNCHANGED news_cache_
       ELSE
           /\ call' = Returned("removeFeed", FALSE)
           /\ UNCHANGED <<feeds_, news_cache_>>
    /\ UNCHANGED <<cache_ttl_seconds_, max_articles_per_feed_, now, sort_ties, world, passes, sync>>

RemoveFeed(feed_url) ==
    /\ IF \E i \in 1..Len(feeds_) : feeds_[i].url = feed_url THEN
           LET it == CHOOSE i \in 1..Len(feeds_) :
                        /\ feeds_[i].url = feed_url
                        /\ \A j \in 1..(i - 1) : feeds_[j].url # feed_url
           IN /\ feeds_' = SubSeq(feeds_, 1, it - 1) \o SubSeq(feeds_, it + 1, Len(feeds_))
              /\ news_cache_' = Erase(news_cache_, generateCacheKey(feed_url))
              /\ call' = [Returned("removeFeed", TRUE) EXCEPT
                            !.evicted = DOMAIN news_cache_ \ DOMAIN news_cache_']
       ELSE
           /\ call' = Returned("removeFeed", FALSE)
           /\ UNCHANGED <<feeds_, news_cache_>>
    /\ UNCHANGED <<cache_ttl_seconds_, max_articles_per_feed_, now, sort_ties, world, passes, sync>>

\* whether the pass asks the server of feed i
NeedsRequest(i, force_refresh) ==
    /\ feeds_[i].is_active
    /\ Lookup(news_cache_, generateCacheKey(feeds_[i].url), force_refresh,
              now).articles = <<>>

\* the response of every feed whose server the pass asks
ResponsesIn(condition, force_refresh) ==
    [i \in 1..Len(feeds_) |->
        IF NeedsRequest(i, force_refresh) THEN ResponseOf(feeds_[i].url, condition)
        ELSE NoRequest]

GetLatestNews(force_refresh, responses) ==
    LET st == FeedLoop([feeds |-> feeds_, cache |-> news_cache_,
                        all_articles |-> <<>>, fetched |-> {}, requests |-> <<>>,
                        stored |-> {}, looked_up |-> {}, evicted |-> {}],
                       1, force_refresh, responses, cache_ttl_seconds_,
                       max_articles_per_feed_, now)
        unique_articles == deduplicateArticles(st.all_articles)
        result == Truncate(StdSort(unique_articles))
    IN /\ passes < MaxPasses
       /\ passes' = passes + 1
       /\ feeds_' = st.feeds
       /\ news_cache_' = st.cache
       /\ call' = Call("getLatestNews", force_refresh, TRUE, st, unique_articles, result)
       /\ UNCHANGED <<cache_ttl_seconds_, max_articles_per_feed_, now, sort_ties, world, sync>>

\* refreshAllFeeds: getLatestNews(true), whose string is never empty, then
\* feeds_.size()
RefreshAllFeeds(responses) ==
    LET st == FeedLoop([feeds |-> feeds_, cache |-> news_cache_,
                        all_articles |-> <<>>, fetched |-> {}, requests |-> <<>>,
                        stored |-> {}, looked_up |-> {}, evicted |-> {}],
                       1, TRUE, responses, cache_ttl_seconds_,
                       max_articles_per_feed_, now)
        unique_articles == deduplicateArticles(st.all_articles)
        result == Truncate(StdSort(unique_articles))
    IN /\ passes < MaxPasses
       /\ passes' = passes + 1
       /\ feeds_' = st.feeds
       /\ news_cache_' = st.cache
       /\ call' = [Call("refreshAllFeeds", TRUE, TRUE, st, unique_articles, result)
                      EXCEPT !.count = Len(st.feeds)]
       /\ UNCHANGED <<cache_ttl_seconds_, max_articles_per_feed_, now, sort_ties, world, sync>>

ClearCache ==
    /\ news_cache_' = EmptyCache
    /\ call' = Returned("clearCache", TRUE)
    /\ UNCHANGED <<feeds_, cache_ttl_seconds_, max_articles_per_feed_, now,
                   sort_ties, world, passes, sync>>

\* setCacheTTL giving every entry of the cache the new TTL
SetCacheTTLRewriting(ttl_seconds) ==
    /\ cache_ttl_seconds_' = Max(MinTTL, ttl_seconds)
    /\ news_cache_' = [k \in DOMAIN news_cache_ |->
                         [news_cache_[k] EXCEPT
                            !.expires_at = news_cache_[k].cached_at
                                             + Max(MinTTL, ttl_seconds)]]
    /\ call' = Returned("setCacheTTL", TRUE)
    /\ UNCHANGED <<feeds_, max_articles_per_feed_, now, sort_ties, world, passes, sync>>

SetCacheTTL(ttl_seconds) ==
    /\ cache_ttl_seconds_' = Max(MinTTL, ttl_seconds)
    /\ call' = Returned("setCacheTTL", TRUE)
    /\ UNCHANGED <<feeds_, news_cache_, max_articles_per_feed_, now, sort_ties, world, passes, sync>>

\* the clock advances
Tick ==
    /\ \E t \in Times : t > now /\ now' = t
    /\ UNCHANGED <<feeds_, news_cache_, cache_ttl_seconds_, max_articles_per_feed_,
                   sort_ties, world, call, passes, sync>>

\* the arguments the handlers are called with
InitializeArgs ==
    IF world = "large" THEN {<<DefaultTTL, DefaultMaxArticles>>, <<-1, 201>>}
    ELSE IF world = "widget" THEN {<<DefaultTTL, DefaultMaxArticles>>}
    ELSE IF world = "config"
    THEN {-1, 0, MinTTL - 1, MinTTL, MinTTL + 1, 2 * MinTTL}
         \X {-1, 0, 1, 2, MaxArticlesCeiling, MaxArticlesCeiling + 1, 1000}
    ELSE {<<-1, 2>>}
SetCacheTTLArgs ==
    IF world = "config" THEN {-1, 0, MinTTL - 1, MinTTL, MinTTL + 1, 2 * MinTTL}
    ELSE {0}
AddFeedArgs == IF world = "ops" THEN {EXAMPLE, CNN, REDDIT, <<>>} ELSE {EXAMPLE}
RemoveFeedArgs == IF world = "ops" THEN {EXAMPLE, REDDIT, CNN} ELSE {EXAMPLE, REDDIT}

Next ==
    \/ \E a \in InitializeArgs : Initialize(a[1], a[2])
    \/ \E u \in AddFeedArgs, c \in Conditions : AddFeed(u, ResponseOf(u, c))
    \/ \E u \in RemoveFeedArgs : RemoveFeed(u)
    \/ \E f \in BOOLEAN, c \in Conditions : GetLatestNews(f, ResponsesIn(c, f))
    \/ ClearCache
    \/ \E ttl \in SetCacheTTLArgs : SetCacheTTL(ttl)
    \/ Tick

Spec == Init /\ [][Next]_vars

\* the same service in front of servers with large documents
InitLarge ==
    /\ feeds_ = <<>>
    /\ news_cache_ = EmptyCache
    /\ cache_ttl_seconds_ = DefaultTTL
    /\ max_articles_per_feed_ = DefaultMaxArticles
    /\ now = StartTime
    /\ sort_ties \in {"input_order", "reversed"}
    /\ world = "large"
    /\ call = Returned("NewsService", TRUE)
    /\ passes = 0
    /\ threads = [t \in Threads |-> IdleThread(0)]
    /\ mutexes = NoOwner

NextLarge ==
    \/ \E a \in InitializeArgs : Initialize(a[1], a[2])
    \/ \E u \in RemoveFeedArgs : RemoveFeed(u)
    \/ \E f \in BOOLEAN, c \in Conditions : GetLatestNews(f, ResponsesIn(c, f))
    \/ ClearCache

SpecLarge == InitLarge /\ [][NextLarge]_vars

\* the handlers called at one instant, refreshAllFeeds among them
InitOps ==
    /\ feeds_ = <<>>
    /\ news_cache_ = EmptyCache
    /\ cache_ttl_seconds_ = DefaultTTL
    /\ max_articles_per_feed_ = DefaultMaxArticles
    /\ now = StartTime
    /\ sort_ties \in {"input_order", "reversed"}
    /\ world = "ops"
    /\ call = Returned("NewsService", TRUE)
    /\ passes = 0
    /\ threads = [t \in Threads |-> IdleThread(0)]
    /\ mutexes = NoOwner

NextOps ==
    \/ \E a \in InitializeArgs : Initialize(a[1], a[2])
    \/ \E u \in AddFeedArgs, c \in Conditions : AddFeed(u, ResponseOf(u, c))
    \/ \E u \in RemoveFeedArgs : RemoveFeed(u)
    \/ \E f \in BOOLEAN, c \in Conditions : GetLatestNews(f, ResponsesIn(c, f))
    \/ \E c \in Conditions : RefreshAllFeeds(ResponsesIn(c, TRUE))
    \/ ClearCache
    \/ \E ttl \in SetCacheTTLArgs : SetCacheTTL(ttl)

SpecOps == InitOps /\ [][NextOps]_vars

\* the service reconfigured with arguments of every kind
InitConfig ==
    /\ feeds_ = <<>>
    /\ news_cache_ = EmptyCache
    /\ cache_ttl_seconds_ = DefaultTTL
    /\ max_articles_per_feed_ = DefaultMaxArticles
    /\ now = StartTime
    /\ sort_ties \in {"input_order", "reversed"}
    /\ world = "config"
    /\ call = Returned("NewsService", TRUE)
    /\ passes = 0
    /\ threads = [t \in Threads |-> IdleThread(0)]
    /\ mutexes = NoOwner

NextConfig ==
    \/ \E a \in InitializeArgs : Initialize(a[1], a[2])
    \/ \E ttl \in SetCacheTTLArgs : SetCacheTTL(ttl)
    \/ \E f \in BOOLEAN, c \in Conditions : GetLatestNews(f, ResponsesIn(c, f))

SpecConfig == InitConfig /\ [][NextConfig]_vars

\* Feed.is_active of the feed with the URL set by the host ("is_active may be
\* toggled"); the service itself has no handler that writes the field
SetFeedActive(feed_url, is_active) ==
    /\ \E i \in 1..Len(feeds_) : feeds_[i].url = feed_url
    /\ feeds_' = [i \in 1..Len(feeds_) |->
                    IF feeds_[i].url = feed_url
                    THEN [feeds_[i] EXCEPT !.is_active = is_active]
                    ELSE feeds_[i]]
    /\ call' = Returned("setFeedActive", TRUE)
    /\ UNCHANGED <<news_cache_, cache_ttl_seconds_, max_articles_per_feed_, now,
                   sort_ties, world, passes, sync>>

\* the registry with feeds switched off and on between the passes
InitToggle ==
    /\ feeds_ = <<>>
    /\ news_cache_ = EmptyCache
    /\ cache_ttl_seconds_ = DefaultTTL
    /\ max_articles_per_feed_ = DefaultMaxArticles
    /\ now = StartTime
    /\ sort_ties \in {"input_order", "reversed"}
    /\ world = "toggle"
    /\ call = Returned("NewsService", TRUE)
    /\ passes = 0
    /\ threads = [t \in Threads |-> IdleThread(0)]
    /\ mutexes = NoOwner

NextToggle ==
    \/ \E a \in InitializeArgs : Initialize(a[1], a[2])
    \/ \E u \in {CNN, TECHCRUNCH}, b \in BOOLEAN : SetFeedActive(u, b)
    \/ \E f \in BOOLEAN, c \in Conditions : GetLatestNews(f, ResponsesIn(c, f))
    \/ ClearCache

SpecToggle == InitToggle /\ [][NextToggle]_vars

----------------------------------------------------------------------------
(* NewsWidget: the widget the dashboard configures with a JSON text *)

\* a JSON value: a string, an integer (int + wraps * 2^32, int within the
\* range of int), or a floating-point number given in tenths
JsonString(str) == [type |-> "string", str |-> str, int |-> 0, wraps |-> 0, tenths |-> 0]

JsonInteger(wraps, int) ==
    [type |-> "number_integer", str |-> <<>>, int |-> int, wraps |-> wraps, tenths |-> 0]

JsonFloat(tenths) ==
    [type |-> "number_float", str |-> <<>>, int |-> 0, wraps |-> 0, tenths |-> tenths]

\* a floating-point number beyond the range of int
JsonHugeFloat ==
    [type |-> "number_float_huge", str |-> <<>>, int |-> 0, wraps |-> 0, tenths |-> 0]

JsonNull == [type |-> "null", str |-> <<>>, int |-> 0, wraps |-> 0, tenths |-> 0]

is_string(j) == j.type = "string"

is_number(j) == j.type \in {"number_integer", "number_float", "number_float_huge"}

\* what the conversion of a floating-point number beyond the range of int can give
OutOfRangeInts == {-2000000000, 2000000000}

\* get<int>(): the static_cast of the stored number: an integer modulo 2^32,
\* a floating-point number cut towards zero, beyond the range of int any value
get_int(j) ==
    IF j.type = "number_integer" THEN {j.int}
    ELSE IF j.type = "number_float"
    THEN {IF j.tenths >= 0 THEN j.tenths \div 10 ELSE -((-j.tenths) \div 10)}
    ELSE OutOfRangeInts

\* the text of a configuration: whether json::parse accepts it, whether it is
\* an object, and its members "feeds" and "cache_ttl"
Config(valid, is_object, has_feeds, feeds_is_array, feeds, has_cache_ttl, cache_ttl) ==
    [valid |-> valid, is_object |-> is_object, has_feeds |-> has_feeds,
     feeds_is_array |-> feeds_is_array, feeds |-> feeds,
     has_cache_ttl |-> has_cache_ttl, cache_ttl |-> cache_ttl]

\* the configurations the widget is given
Configs ==
    {Config(FALSE, FALSE, FALSE, FALSE, <<>>, FALSE, JsonNull),
     Config(TRUE, FALSE, FALSE, FALSE, <<>>, FALSE, JsonNull),
     Config(TRUE, TRUE, TRUE, TRUE,
            <<JsonString(EXAMPLE), JsonString(CNN), JsonInteger(0, 7),
              JsonString(<<>>), JsonString(EXAMPLE)>>,
            TRUE, JsonInteger(0, 2 * MinTTL)),
     Config(TRUE, TRUE, TRUE, TRUE, <<JsonString(REDDIT)>>, FALSE, JsonNull),
     Config(TRUE, TRUE, TRUE, FALSE, <<>>, TRUE, JsonString(<<"a">>)),
     Config(TRUE, TRUE, FALSE, FALSE, <<>>, TRUE, JsonFloat(10 * MinTTL - 1)),
     Config(TRUE, TRUE, FALSE, FALSE, <<>>, TRUE, JsonFloat(20 * MinTTL + 5)),
     Config(TRUE, TRUE, FALSE, FALSE, <<>>, TRUE, JsonInteger(0, -5)),
     Config(TRUE, TRUE, FALSE, FALSE, <<>>, TRUE, JsonInteger(1, 2 * MinTTL)),
     Config(TRUE, TRUE, FALSE, FALSE, <<>>, TRUE, JsonHugeFloat)}

\* addFeed as a function of the registry: the registry it leaves and what it
\* returns
addFeed(feeds, feed_url, response) ==
    IF feed_url = <<>> THEN [feeds |-> feeds, ret |-> FALSE]
    ELSE IF \E i \in 1..Len(feeds) : feeds[i].url = feed_url
    THEN [feeds |-> feeds, ret |-> FALSE]
    ELSE IF ~response.success \/ response.status_code # 200
    THEN [feeds |-> feeds, ret |-> FALSE]
    ELSE IF detectFeedType(response.data) = "UNKNOWN"
    THEN [feeds |-> feeds, ret |-> FALSE]
    ELSE [feeds |-> Append(feeds, Feed(feed_url)), ret |-> TRUE]

\* the loop of SetConfig over the elements of "feeds", from element n
RECURSIVE AddConfiguredFeeds(_, _, _, _)
AddConfiguredFeeds(feeds, elements, n, condition) ==
    IF n > Len(elements) THEN feeds
    ELSE IF is_string(elements[n])
    THEN AddConfiguredFeeds(addFeed(feeds, elements[n].str,
                                    ResponseOf(elements[n].str, condition)).feeds,
                            elements, n + 1, condition)
    ELSE AddConfiguredFeeds(feeds, elements, n + 1, condition)

\* SetConfig emptying the registry before it adds the feeds
SetConfigReplacing(config, condition) ==
    /\ IF ~config.valid
       THEN UNCHANGED <<feeds_, cache_ttl_seconds_>>
       ELSE /\ IF config.is_object /\ config.has_feeds /\ config.feeds_is_array
               THEN feeds_' = AddConfiguredFeeds(<<>>, config.feeds, 1, condition)
               ELSE UNCHANGED feeds_
            /\ IF config.is_object /\ config.has_cache_ttl /\ is_number(config.cache_ttl)
               THEN \E ttl_seconds \in get_int(config.cache_ttl) :
                       cache_ttl_seconds_' = Max(MinTTL, ttl_seconds)
               ELSE UNCHANGED cache_ttl_seconds_
    /\ call' = Returned("SetConfig", config.valid)
    /\ UNCHANGED <<news_cache_, max_articles_per_feed_, now, sort_ties, world,
                   passes, sync>>

\* NewsWidget::SetConfig; ret tells whether json::parse accepted the text (the
\* exception it throws otherwise is caught in the handler)
SetConfig(config, condition) ==
    /\ IF ~config.valid
       THEN UNCHANGED <<feeds_, cache_ttl_seconds_>>
       ELSE /\ IF config.is_object /\ config.has_feeds /\ config.feeds_is_array
               THEN feeds_' = AddConfiguredFeeds(feeds_, config.feeds, 1, condition)
               ELSE UNCHANGED feeds_
            /\ IF config.is_object /\ config.has_cache_ttl /\ is_number(config.cache_ttl)
               THEN \E ttl_seconds \in get_int(config.cache_ttl) :
                       cache_ttl_seconds_' = Max(MinTTL, ttl_seconds)
               ELSE UNCHANGED cache_ttl_seconds_
    /\ call' = Returned("SetConfig", config.valid)
    /\ UNCHANGED <<news_cache_, max_articles_per_feed_, now, sort_ties, world,
                   passes, sync>>

\* the service behind its widget
InitWidget ==
    /\ feeds_ = <<>>
    /\ news_cache_ = EmptyCache
    /\ cache_ttl_seconds_ = DefaultTTL
    /\ max_articles_per_feed_ = DefaultMaxArticles
    /\ now = StartTime
    /\ sort_ties \in {"input_order", "reversed"}
    /\ world = "widget"
    /\ call = Returned("NewsService", TRUE)
    /\ passes = 0
    /\ threads = [t \in Threads |-> IdleThread(0)]
    /\ mutexes = NoOwner

\* Initialize, SetConfig, Update / GetData
NextWidget ==
    \/ \E a \in InitializeArgs : Initialize(a[1], a[2])
    \/ \E config \in Configs, c \in Conditions : SetConfig(config, c)
    \/ \E c \in Conditions : GetLatestNews(FALSE, ResponsesIn(c, FALSE))

SpecWidget == InitWidget /\ [][NextWidget]_vars

----------------------------------------------------------------------------
(* detectFeedType over documents *)

\* the four texts detectFeedType searches for
Markers ==
    {"<rss", "version=\"2.0\"", "<feed", "xmlns=\"http://www.w3.org/2005/Atom\""}

\* well-formed documents with every root, every combination of the two
\* attributes in the root's start tag, and every combination of the four
\* texts elsewhere in the document
Documents ==
    {Document(sig, TRUE, root, root_attrs, root = "rss", <<>>, <<>>) :
        sig \in SUBSET Markers,
        root \in {"rss", "feed", "html"},
        root_attrs \in SUBSET {"version=\"2.0\"", "xmlns=\"http://www.w3.org/2005/Atom\""}}

InitDetect ==
    /\ feeds_ = <<>>
    /\ news_cache_ = EmptyCache
    /\ cache_ttl_seconds_ = DefaultTTL
    /\ max_articles_per_feed_ = DefaultMaxArticles
    /\ now = StartTime
    /\ sort_ties = "input_order"
    /\ world = "detect"
    /\ call = Returned("NewsService", TRUE)
    /\ passes = 0
    /\ threads = [t \in Threads |-> IdleThread(0)]
    /\ mutexes = NoOwner

\* a call of detectFeedType with a document: the call record holds the
\* argument and the type returned
DetectFeedType(xml_content) ==
    /\ call' = [op |-> "detectFeedType", xml_content |-> xml_content,
                ret |-> detectFeedType(xml_content)]
    /\ UNCHANGED <<feeds_, news_cache_, cache_ttl_seconds_, max_articles_per_feed_,
                   now, sort_ties, world, passes, sync>>

NextDetect == \E xml_content \in Documents : DetectFeedType(xml_content)

SpecDetect == InitDetect /\ [][NextDetect]_vars

----------------------------------------------------------------------------
(* performHttpRequest over the outcomes of cURL *)

\* CURLcode values curl_easy_perform returns
CurlResults ==
    {"CURLE_OK", "CURLE_COULDNT_RESOLVE_HOST", "CURLE_OPERATION_TIMEDOUT",
     "CURLE_PARTIAL_FILE", "CURLE_SSL_CONNECT_ERROR"}

\* curl_easy_strerror: a text for every code, never empty
curl_easy_strerror(curl_result) ==
    CASE curl_result = "CURLE_OK" -> "No error"
      [] curl_result = "CURLE_COULDNT_RESOLVE_HOST" -> "Couldn't resolve host name"
      [] curl_result = "CURLE_OPERATION_TIMEDOUT" -> "Timeout was reached"
      [] curl_result = "CURLE_PARTIAL_FILE" -> "Transferred a partial file"
      [] curl_result = "CURLE_SSL_CONNECT_ERROR" -> "SSL connect error"

\* what writeCallback has appended to response.data when curl_easy_perform
\* returns: nothing, one block or two
Received == {<<>>, <<"block1">>, <<"block1", "block2">>}

\* CURLINFO_RESPONSE_CODE of the last response, 0 when none was received
ResponseCodes == {0, 200, 404, 500}

\* performHttpRequest: curl_handle is whether curl_handle_ is not null,
\* curl_result what curl_easy_perform returns, received what the write
\* callback has stored by then, response_code what curl_easy_getinfo gives
performHttpRequest(curl_handle, curl_result, received, response_code) ==
    IF ~curl_handle THEN HttpResponse(FALSE, 0, <<>>)
    ELSE IF curl_result = "CURLE_OK" THEN HttpResponse(TRUE, response_code, received)
    ELSE HttpResponse(FALSE, 0, <<curl_easy_strerror(curl_result)>>)

InitHttp ==
    /\ feeds_ = <<>>
    /\ news_cache_ = EmptyCache
    /\ cache_ttl_seconds_ = DefaultTTL
    /\ max_articles_per_feed_ = DefaultMaxArticles
    /\ now = StartTime
    /\ sort_ties = "input_order"
    /\ world = "http"
    /\ call = Returned("NewsService", TRUE)
    /\ passes = 0
    /\ threads = [t \in Threads |-> IdleThread(0)]
    /\ mutexes = NoOwner

\* a call of performHttpRequest: the call record holds the state of the
\* handle, what cURL did or would do, and the response returned
PerformHttpRequest(curl_handle, curl_result, received, response_code) ==
    /\ call' = [op |-> "performHttpRequest", curl_handle |-> curl_handle,
                curl_result |-> curl_result, received |-> received,
                response_code |-> response_code,
                ret |-> performHttpRequest(curl_handle, curl_result, received,
                                           response_code)]
    /\ UNCHANGED <<feeds_, news_cache_, cache_ttl_seconds_, max_articles_per_feed_,
                   now, sort_ties, world, passes, sync>>

NextHttp ==
    \E curl_handle \in BOOLEAN, curl_result \in CurlResults, received \in Received,
       response_code \in ResponseCodes :
       PerformHttpRequest(curl_handle, curl_result, received, response_code)

SpecHttp == InitHttp /\ [][NextHttp]_vars

----------------------------------------------------------------------------
(* The handlers called by concurrent threads: one action per stretch of a
   handler between two points where another thread can run in between, which
   are the lock_guard constructors (a thread waits there until the mutex is
   free), the critical sections and performHttpRequest *)

\* the mutexes removeFeed locks, in the order it locks them
removeFeedLocksCacheFirst == <<"cache_mutex_", "feeds_mutex_">>

removeFeedLocks == <<"feeds_mutex_", "cache_mutex_">>

\* the owner of cache_mutex_ after getCachedNews, were its lock to outlive it
getCachedNewsKeepsLock(t) == t

\* the owner of cache_mutex_ after getCachedNews: the lock_guard of line 508
\* ends with the function
getCachedNewsUnlock(t) == "free"

\* the calls the threads make
ThreadCalls ==
    {[op |-> "addFeed", url |-> EXAMPLE, force_refresh |-> FALSE, ttl_seconds |-> 0],
     [op |-> "removeFeed", url |-> EXAMPLE, force_refresh |-> FALSE, ttl_seconds |-> 0],
     [op |-> "getLatestNews", url |-> <<>>, force_refresh |-> FALSE, ttl_seconds |-> 0],
     [op |-> "getLatestNews", url |-> <<>>, force_refresh |-> TRUE, ttl_seconds |-> 0],
     [op |-> "refreshAllFeeds", url |-> <<>>, force_refresh |-> TRUE, ttl_seconds |-> 0],
     [op |-> "getFeeds", url |-> <<>>, force_refresh |-> FALSE, ttl_seconds |-> 0],
     [op |-> "getStatus", url |-> <<>>, force_refresh |-> FALSE, ttl_seconds |-> 0],
     [op |-> "clearCache", url |-> <<>>, force_refresh |-> FALSE, ttl_seconds |-> 0],
     [op |-> "setCacheTTL", url |-> <<>>, force_refresh |-> FALSE, ttl_seconds |-> 0]}

\* where a call begins
FirstPc(op) ==
    CASE op = "addFeed" -> "addFeed_lock"
      [] op = "removeFeed" -> "removeFeed_first"
      [] op = "getLatestNews" -> "getLatestNews_lock"
      [] op = "refreshAllFeeds" -> "getLatestNews_lock"
      [] op = "getFeeds" -> "getFeeds_lock"
      [] op = "getStatus" -> "getStatus_feeds"
      [] op = "clearCache" -> "clearCache_lock"
      [] op = "setCacheTTL" -> "setCacheTTL_store"

\* the calls made so far
RECURSIVE CallsOf(_)
CallsOf(ts) ==
    IF ts = {} THEN 0
    ELSE LET t == CHOOSE x \in ts : TRUE
         IN threads[t].calls + CallsOf(ts \ {t})

Free(mutex) == mutexes[mutex] = "free"

Holds(t, mutex) == mutexes[mutex] = t

\* the thread is in performHttpRequest
InHttp(t) == threads[t].pc \in {"addFeed_http", "getLatestNews_http"}

\* thread t is where pc says
At(t, pc) == threads[t].pc = pc

\* the statements that read or write feeds_ or a Feed of it are the next ones
\* of the thread
AccessesRegistry(t) ==
    \/ threads[t].pc \in {"addFeed_find", "addFeed_append", "getLatestNews_loop",
                          "getLatestNews_record", "getFeeds_read", "getStatus_count",
                          "refreshAllFeeds_size"}
    \/ At(t, "removeFeed_find") /\ removeFeedLocks[1] = "feeds_mutex_"
    \/ At(t, "removeFeed_erase") /\ removeFeedLocks[2] = "feeds_mutex_"

\* the next statements of the thread write feeds_ or a Feed of it
WritesRegistry(t) ==
    \/ threads[t].pc \in {"addFeed_append", "getLatestNews_record"}
    \/ At(t, "removeFeed_find") /\ removeFeedLocks[1] = "feeds_mutex_"
    \/ At(t, "removeFeed_erase") /\ removeFeedLocks[2] = "feeds_mutex_"

\* the statements that read or write news_cache_ are the next ones of the thread
AccessesCache(t) ==
    threads[t].pc \in {"getLatestNews_lookup", "getLatestNews_insert",
                       "removeFeed_erase", "getStatus_size", "clearCache_clear"}

\* the mutex the next statement of the thread locks (a lock_guard), "none"
\* when the next statement is no lock
WaitsFor(t) ==
    IF threads[t].pc \in {"addFeed_lock", "getLatestNews_lock", "getFeeds_lock",
                          "getStatus_feeds"}
    THEN "feeds_mutex_"
    ELSE IF threads[t].pc \in {"getLatestNews_cached", "getLatestNews_store",
                               "getStatus_cache", "clearCache_lock"}
    THEN "cache_mutex_"
    ELSE IF At(t, "removeFeed_first") THEN removeFeedLocks[1]
    ELSE IF At(t, "removeFeed_second") THEN removeFeedLocks[2]
    ELSE "none"

\* the thread record after the return of the call
ReturnedThread(t, ret, result) ==
    [IdleThread(threads[t].calls) EXCEPT !.ret = ret, !.result = result,
                                         !.fetches = threads[t].fetches]

\* the service as constructed, the threads in no call
InitThreads ==
    /\ feeds_ = <<>>
    /\ news_cache_ = EmptyCache
    /\ cache_ttl_seconds_ = DefaultTTL
    /\ max_articles_per_feed_ = DefaultMaxArticles
    /\ now = StartTime
    /\ sort_ties \in {"input_order", "reversed"}
    /\ world = "threads"
    /\ call = Returned("NewsService", TRUE)
    /\ passes = 0
    /\ threads = [t \in Threads |-> IdleThread(0)]
    /\ mutexes = NoOwner

\* a thread calls a handler
Invoke(t, c) ==
    /\ At(t, "idle")
    /\ CallsOf(Threads) < MaxCalls
    /\ threads' = [threads EXCEPT ![t] =
                      [IdleThread(threads[t].calls + 1) EXCEPT
                          !.pc = FirstPc(c.op), !.op = c.op, !.url = c.url,
                          !.force_refresh = c.force_refresh,
                          !.ttl_seconds = c.ttl_seconds,
                          !.fetches = threads[t].fetches]]
    /\ UNCHANGED <<feeds_, news_cache_, cache_ttl_seconds_, max_articles_per_feed_,
                   now, sort_ties, world, call, passes, mutexes>>

\* addFeed, lines 63-67: the empty URL, the lock_guard
AddFeedLock(t) ==
    /\ At(t, "addFeed_lock")
    /\ IF threads[t].url = <<>>
       THEN /\ threads' = [threads EXCEPT ![t] = ReturnedThread(t, FALSE, <<>>)]
            /\ UNCHANGED mutexes
       ELSE /\ Free("feeds_mutex_")
            /\ mutexes' = [mutexes EXCEPT !.feeds_mutex_ = t]
            /\ threads' = [threads EXCEPT ![t].pc = "addFeed_find"]
    /\ UNCHANGED <<feeds_, news_cache_, cache_ttl_seconds_, max_articles_per_feed_,
                   now, sort_ties, world, call, passes>>

\* addFeed, lines 70-77: the search of feeds_ for the URL, then the request
AddFeedFind(t) ==
    /\ At(t, "addFeed_find")
    /\ Holds(t, "feeds_mutex_")
    /\ IF \E i \in 1..Len(feeds_) : feeds_[i].url = threads[t].url
       THEN /\ threads' = [threads EXCEPT ![t] = ReturnedThread(t, FALSE, <<>>)]
            /\ mutexes' = [mutexes EXCEPT !.feeds_mutex_ = "free"]
       ELSE /\ threads' = [threads EXCEPT ![t].pc = "addFeed_http"]
            /\ UNCHANGED mutexes
    /\ UNCHANGED <<feeds_, news_cache_, cache_ttl_seconds_, max_articles_per_feed_,
                   now, sort_ties, world, call, passes>>

\* addFeed, line 77: performHttpRequest returns
AddFeedHttp(t, response) ==
    /\ At(t, "addFeed_http")
    /\ threads' = [threads EXCEPT ![t].pc = "addFeed_append",
                                  ![t].response = response]
    /\ UNCHANGED <<feeds_, news_cache_, cache_ttl_seconds_, max_articles_per_feed_,
                   now, sort_ties, world, call, passes, mutexes>>

\* addFeed, lines 78-93: the response is judged, the feed appended
AddFeedAppend(t) ==
    /\ At(t, "addFeed_append")
    /\ Holds(t, "feeds_mutex_")
    /\ IF ~threads[t].response.success \/ threads[t].response.status_code # 200
       THEN /\ threads' = [threads EXCEPT ![t] = ReturnedThread(t, FALSE, <<>>)]
            /\ UNCHANGED feeds_
       ELSE IF detectFeedType(threads[t].response.data) = "UNKNOWN"
       THEN /\ threads' = [threads EXCEPT ![t] = ReturnedThread(t, FALSE, <<>>)]
            /\ UNCHANGED feeds_
       ELSE /\ feeds_' = Append(feeds_, Feed(threads[t].url))
            /\ threads' = [threads EXCEPT ![t] = ReturnedThread(t, TRUE, <<>>)]
    /\ mutexes' = [mutexes EXCEPT !.feeds_mutex_ = "free"]
    /\ UNCHANGED <<news_cache_, cache_ttl_seconds_, max_articles_per_feed_,
                   now, sort_ties, world, call, passes>>

\* feeds_ without its first feed with the URL
WithoutFeed(feeds, feed_url) ==
    LET it == CHOOSE i \in 1..Len(feeds) :
                 /\ feeds[i].url = feed_url
                 /\ \A j \in 1..(i - 1) : feeds[j].url # feed_url
    IN SubSeq(feeds, 1, it - 1) \o SubSeq(feeds, it + 1, Len(feeds))

\* removeFeed, line 97: the first lock_guard, of the first mutex of
\* removeFeedLocks
RemoveFeedFirst(t) ==
    /\ At(t, "removeFeed_first")
    /\ Free(removeFeedLocks[1])
    /\ mutexes' = [mutexes EXCEPT ![removeFeedLocks[1]] = t]
    /\ threads' = [threads EXCEPT ![t].pc = "removeFeed_find"]
    /\ UNCHANGED <<feeds_, news_cache_, cache_ttl_seconds_, max_articles_per_feed_,
                   now, sort_ties, world, call, passes>>

\* removeFeed, lines 99-105 and 115: under feeds_mutex_ the feed is searched
\* and erased; a URL that is not registered ends the call
RemoveFeedFind(t) ==
    /\ At(t, "removeFeed_find")
    /\ Holds(t, removeFeedLocks[1])
    /\ IF removeFeedLocks[1] = "feeds_mutex_"
       THEN IF \E i \in 1..Len(feeds_) : feeds_[i].url = threads[t].url
            THEN /\ feeds_' = WithoutFeed(feeds_, threads[t].url)
                 /\ threads' = [threads EXCEPT ![t].pc = "removeFeed_second"]
                 /\ UNCHANGED mutexes
            ELSE /\ threads' = [threads EXCEPT ![t] = ReturnedThread(t, FALSE, <<>>)]
                 /\ mutexes' = [mutexes EXCEPT ![removeFeedLocks[1]] = "free"]
                 /\ UNCHANGED feeds_
       ELSE /\ threads' = [threads EXCEPT ![t].pc = "removeFeed_second"]
            /\ UNCHANGED <<feeds_, mutexes>>
    /\ UNCHANGED <<news_cache_, cache_ttl_seconds_, max_articles_per_feed_,
                   now, sort_ties, world, call, passes>>

\* removeFeed, line 108: the second lock_guard, of the second mutex of
\* removeFeedLocks
RemoveFeedSecond(t) ==
    /\ At(t, "removeFeed_second")
    /\ Holds(t, removeFeedLocks[1])
    /\ Free(removeFeedLocks[2])
    /\ mutexes' = [mutexes EXCEPT ![removeFeedLocks[2]] = t]
    /\ threads' = [threads EXCEPT ![t].pc = "removeFeed_erase"]
    /\ UNCHANGED <<feeds_, news_cache_, cache_ttl_seconds_, max_articles_per_feed_,
                   now, sort_ties, world, call, passes>>

\* removeFeed without the erase of the cache entry
RemoveFeedEraseKeepingEntry(t) ==
    /\ At(t, "removeFeed_erase")
    /\ Holds(t, "feeds_mutex_")
    /\ Holds(t, "cache_mutex_")
    /\ threads' = [threads EXCEPT ![t] = ReturnedThread(t, TRUE, <<>>)]
    /\ mutexes' = NoOwner
    /\ UNCHANGED <<feeds_, news_cache_, cache_ttl_seconds_, max_articles_per_feed_,
                   now, sort_ties, world, call, passes>>

\* removeFeed, lines 109-112: the cache entry is erased, both mutexes unlocked
RemoveFeedErase(t) ==
    /\ At(t, "removeFeed_erase")
    /\ Holds(t, "feeds_mutex_")
    /\ Holds(t, "cache_mutex_")
    /\ IF removeFeedLocks[2] = "cache_mutex_"
       THEN /\ news_cache_' = Erase(news_cache_, generateCacheKey(threads[t].url))
            /\ threads' = [threads EXCEPT ![t] = ReturnedThread(t, TRUE, <<>>)]
            /\ UNCHANGED feeds_
       ELSE IF \E i \in 1..Len(feeds_) : feeds_[i].url = threads[t].url
       THEN /\ feeds_' = WithoutFeed(feeds_, threads[t].url)
            /\ news_cache_' = Erase(news_cache_, generateCacheKey(threads[t].url))
            /\ threads' = [threads EXCEPT ![t] = ReturnedThread(t, TRUE, <<>>)]
       ELSE /\ threads' = [threads EXCEPT ![t] = ReturnedThread(t, FALSE, <<>>)]
            /\ UNCHANGED <<feeds_, news_cache_>>
    /\ mutexes' = NoOwner
    /\ UNCHANGED <<cache_ttl_seconds_, max_articles_per_feed_,
                   now, sort_ties, world, call, passes>>

\* getLatestNews, line 141: the lock_guard of feeds_mutex_
GetLatestNewsLock(t) ==
    /\ At(t, "getLatestNews_lock")
    /\ Free("feeds_mutex_")
    /\ mutexes' = [mutexes EXCEPT !.feeds_mutex_ = t]
    /\ threads' = [threads EXCEPT ![t].pc = "getLatestNews_loop", ![t].i = 1]
    /\ UNCHANGED <<feeds_, news_cache_, cache_ttl_seconds_, max_articles_per_feed_,
                   now, sort_ties, world, call, passes>>

\* getLatestNews, lines 143-151 and 186-202: the head of the loop; after the
\* last feed the mutex is unlocked and the list deduplicated, sorted and cut;
\* refreshAllFeeds goes on to read feeds_.size()
GetLatestNewsLoop(t) ==
    LET i == threads[t].i
    IN /\ At(t, "getLatestNews_loop")
       /\ Holds(t, "feeds_mutex_")
       /\ IF i > Len(feeds_)
          THEN /\ \E result \in {Truncate(StdSort(deduplicateArticles(
                                                     threads[t].all_articles)))} :
                     threads' = [threads EXCEPT ![t] =
                        IF threads[t].op = "refreshAllFeeds"
                        THEN [threads[t] EXCEPT !.pc = "refreshAllFeeds_size",
                                                !.result = result,
                                                !.all_articles = <<>>]
                        ELSE ReturnedThread(t, TRUE, result)]
               /\ mutexes' = [mutexes EXCEPT !.feeds_mutex_ = "free"]
          ELSE IF ~feeds_[i].is_active
          THEN /\ threads' = [threads EXCEPT ![t].i = i + 1]
               /\ UNCHANGED mutexes
          ELSE IF threads[t].force_refresh
          THEN /\ threads' = [threads EXCEPT ![t].pc = "getLatestNews_http"]
               /\ UNCHANGED mutexes
          ELSE /\ threads' = [threads EXCEPT ![t].pc = "getLatestNews_cached"]
               /\ UNCHANGED mutexes
       /\ UNCHANGED <<feeds_, news_cache_, cache_ttl_seconds_, max_articles_per_feed_,
                      now, sort_ties, world, call, passes>>

\* getCachedNews, line 508: the lock_guard of cache_mutex_
GetCachedNewsLock(t) ==
    /\ At(t, "getLatestNews_cached")
    /\ Holds(t, "feeds_mutex_")
    /\ Free("cache_mutex_")
    /\ mutexes' = [mutexes EXCEPT !.cache_mutex_ = t]
    /\ threads' = [threads EXCEPT ![t].pc = "getLatestNews_lookup"]
    /\ UNCHANGED <<feeds_, news_cache_, cache_ttl_seconds_, max_articles_per_feed_,
                   now, sort_ties, world, call, passes>>

\* getCachedNews, lines 510-520, and lines 155, 184 of its caller: the lookup,
\* the erase of an expired entry, the end of the lock_guard
GetCachedNewsLookup(t) ==
    LET i == threads[t].i
    IN /\ At(t, "getLatestNews_lookup")
       /\ Holds(t, "cache_mutex_")
       /\ \E looked \in {Lookup(news_cache_, generateCacheKey(feeds_[i].url),
                                FALSE, now)} :
             /\ news_cache_' = looked.cache
             /\ IF looked.articles = <<>>
                THEN threads' = [threads EXCEPT ![t].pc = "getLatestNews_http"]
                ELSE threads' = [threads EXCEPT
                                    ![t].pc = "getLatestNews_loop",
                                    ![t].i = i + 1,
                                    ![t].all_articles = @ \o looked.articles]
       /\ mutexes' = [mutexes EXCEPT !.cache_mutex_ = getCachedNewsUnlock(t)]
       /\ UNCHANGED <<feeds_, cache_ttl_seconds_, max_articles_per_feed_,
                      now, sort_ties, world, call, passes>>

\* getLatestNews, lines 157-170: performHttpRequest returns and the response
\* is parsed; outcome is what lines 171-180 are going to do with it
GetLatestNewsHttp(t, response) ==
    /\ At(t, "getLatestNews_http")
    /\ \E f \in {AfterFetch(feeds_[threads[t].i], news_cache_,
                            generateCacheKey(feeds_[threads[t].i].url), response,
                            cache_ttl_seconds_, max_articles_per_feed_, now)} :
          threads' = [threads EXCEPT
                         ![t].pc = "getLatestNews_record",
                         ![t].outcome = [feed |-> f.feed, articles |-> f.articles,
                                         stored |-> f.stored],
                         ![t].fetches = Append(@, [url |-> feeds_[threads[t].i].url,
                                                   stored |-> f.stored,
                                                   at |-> now])]
    /\ UNCHANGED <<feeds_, news_cache_, cache_ttl_seconds_, max_articles_per_feed_,
                   now, sort_ties, world, call, passes, mutexes>>

\* getLatestNews, lines 158 and 171-180: the feed record is written; a
\* non-empty list goes on to setCachedNews
GetLatestNewsRecord(t) ==
    /\ At(t, "getLatestNews_record")
    /\ Holds(t, "feeds_mutex_")
    /\ feeds_' = [feeds_ EXCEPT ![threads[t].i] = threads[t].outcome.feed]
    /\ IF threads[t].outcome.stored
       THEN threads' = [threads EXCEPT ![t].pc = "getLatestNews_store",
                                       ![t].pending = threads[t].outcome.articles,
                                       ![t].outcome = NoOutcome]
       ELSE threads' = [threads EXCEPT ![t].pc = "getLatestNews_loop",
                                       ![t].i = threads[t].i + 1,
                                       ![t].outcome = NoOutcome]
    /\ UNCHANGED <<news_cache_, cache_ttl_seconds_, max_articles_per_feed_,
                   now, sort_ties, world, call, passes, mutexes>>

\* setCachedNews, line 524: the lock_guard of cache_mutex_
SetCachedNewsLock(t) ==
    /\ At(t, "getLatestNews_store")
    /\ Holds(t, "feeds_mutex_")
    /\ Free("cache_mutex_")
    /\ mutexes' = [mutexes EXCEPT !.cache_mutex_ = t]
    /\ threads' = [threads EXCEPT ![t].pc = "getLatestNews_insert"]
    /\ UNCHANGED <<feeds_, news_cache_, cache_ttl_seconds_, max_articles_per_feed_,
                   now, sort_ties, world, call, passes>>

\* setCachedNews, lines 526-532, and lines 174, 184 of its caller: the entry
\* is stored, the mutex unlocked, the list goes into all_articles
SetCachedNewsInsert(t) ==
    LET i == threads[t].i
    IN /\ At(t, "getLatestNews_insert")
       /\ Holds(t, "cache_mutex_")
       /\ news_cache_' = setCachedNews(news_cache_, generateCacheKey(feeds_[i].url),
                                       threads[t].pending, cache_ttl_seconds_, now)
       /\ threads' = [threads EXCEPT ![t].pc = "getLatestNews_loop",
                                     ![t].i = i + 1,
                                     ![t].all_articles = @ \o threads[t].pending,
                                     ![t].pending = <<>>]
       /\ mutexes' = [mutexes EXCEPT !.cache_mutex_ = "free"]
       /\ UNCHANGED <<feeds_, cache_ttl_seconds_, max_articles_per_feed_,
                      now, sort_ties, world, call, passes>>

\* what a read of feeds_.size() can give: the size when no other thread is
\* about to write feeds_ under its mutex, otherwise any value
SizeRead(t) ==
    IF \E o \in Threads \ {t} : Holds(o, "feeds_mutex_") /\ WritesRegistry(o)
    THEN 0..(Len(feeds_) + 1)
    ELSE {Len(feeds_)}

\* refreshAllFeeds, line 206: feeds_.size() is read, without a lock_guard
RefreshAllFeedsSize(t) ==
    /\ At(t, "refreshAllFeeds_size")
    /\ \E size \in SizeRead(t) :
          threads' = [threads EXCEPT ![t] =
                         [ReturnedThread(t, TRUE, threads[t].result) EXCEPT
                             !.count = size]]
    /\ UNCHANGED <<feeds_, news_cache_, cache_ttl_seconds_, max_articles_per_feed_,
                   now, sort_ties, world, call, passes, mutexes>>

\* getFeeds, line 119: the lock_guard of feeds_mutex_
GetFeedsLock(t) ==
    /\ At(t, "getFeeds_lock")
    /\ Free("feeds_mutex_")
    /\ mutexes' = [mutexes EXCEPT !.feeds_mutex_ = t]
    /\ threads' = [threads EXCEPT ![t].pc = "getFeeds_read"]
    /\ UNCHANGED <<feeds_, news_cache_, cache_ttl_seconds_, max_articles_per_feed_,
                   now, sort_ties, world, call, passes>>

\* getFeeds, lines 121-134: feeds_ is read, the mutex unlocked
GetFeedsRead(t) ==
    /\ At(t, "getFeeds_read")
    /\ Holds(t, "feeds_mutex_")
    /\ mutexes' = [mutexes EXCEPT !.feeds_mutex_ = "free"]
    /\ threads' = [threads EXCEPT ![t] =
                      [ReturnedThread(t, TRUE, <<>>) EXCEPT !.count = Len(feeds_)]]
    /\ UNCHANGED <<feeds_, news_cache_, cache_ttl_seconds_, max_articles_per_feed_,
                   now, sort_ties, world, call, passes>>

\* getStatus, line 226: the lock_guard of feeds_mutex_
GetStatusFeeds(t) ==
    /\ At(t, "getStatus_feeds")
    /\ Free("feeds_mutex_")
    /\ mutexes' = [mutexes EXCEPT !.feeds_mutex_ = t]
    /\ threads' = [threads EXCEPT ![t].pc = "getStatus_count"]
    /\ UNCHANGED <<feeds_, news_cache_, cache_ttl_seconds_, max_articles_per_feed_,
                   now, sort_ties, world, call, passes>>

\* getStatus, lines 227-234: the feeds are counted, the mutex unlocked
GetStatusCount(t) ==
    /\ At(t, "getStatus_count")
    /\ Holds(t, "feeds_mutex_")
    /\ mutexes' = [mutexes EXCEPT !.feeds_mutex_ = "free"]
    /\ threads' = [threads EXCEPT ![t].pc = "getStatus_cache",
                                  ![t].count = Len(feeds_)]
    /\ UNCHANGED <<feeds_, news_cache_, cache_ttl_seconds_, max_articles_per_feed_,
                   now, sort_ties, world, call, passes>>

\* getStatus, line 237: the lock_guard of cache_mutex_
GetStatusCache(t) ==
    /\ At(t, "getStatus_cache")
    /\ Free("cache_mutex_")
    /\ mutexes' = [mutexes EXCEPT !.cache_mutex_ = t]
    /\ threads' = [threads EXCEPT ![t].pc = "getStatus_size"]
    /\ UNCHANGED <<feeds_, news_cache_, cache_ttl_seconds_, max_articles_per_feed_,
                   now, sort_ties, world, call, passes>>

\* getStatus, lines 238-241: news_cache_.size() is read, the mutex unlocked
GetStatusSize(t) ==
    /\ At(t, "getStatus_size")
    /\ Holds(t, "cache_mutex_")
    /\ mutexes' = [mutexes EXCEPT !.cache_mutex_ = "free"]
    /\ threads' = [threads EXCEPT ![t] =
                      [ReturnedThread(t, TRUE, <<>>) EXCEPT
                          !.count = threads[t].count]]
    /\ UNCHANGED <<feeds_, news_cache_, cache_ttl_seconds_, max_articles_per_feed_,
                   now, sort_ties, world, call, passes>>

\* clearCache, line 210: the lock_guard of cache_mutex_
ClearCacheLock(t) ==
    /\ At(t, "clearCache_lock")
    /\ Free("cache_mutex_")
    /\ mutexes' = [mutexes EXCEPT !.cache_mutex_ = t]
    /\ threads' = [threads EXCEPT ![t].pc = "clearCache_clear"]
    /\ UNCHANGED <<feeds_, news_cache_, cache_ttl_seconds_, max_articles_per_feed_,
                   now, sort_ties, world, call, passes>>

\* clearCache, lines 211-212: the map is cleared, the mutex unlocked
ClearCacheClear(t) ==
    /\ At(t, "clearCache_clear")
    /\ Holds(t, "cache_mutex_")
    /\ news_cache_' = EmptyCache
    /\ mutexes' = [mutexes EXCEPT !.cache_mutex_ = "free"]
    /\ threads' = [threads EXCEPT ![t] = ReturnedThread(t, TRUE, <<>>)]
    /\ UNCHANGED <<feeds_, cache_ttl_seconds_, max_articles_per_feed_,
                   now, sort_ties, world, call, passes>>

\* setCacheTTL, lines 214-216: no mutex
SetCacheTTLStore(t) ==
    /\ At(t, "setCacheTTL_store")
    /\ cache_ttl_seconds_' = Max(MinTTL, threads[t].ttl_seconds)
    /\ threads' = [threads EXCEPT ![t] = ReturnedThread(t, TRUE, <<>>)]
    /\ UNCHANGED <<feeds_, news_cache_, max_articles_per_feed_,
                   now, sort_ties, world, call, passes, mutexes>>

\* performHttpRequest returns to thread t (within its timeout)
HttpReturns(t) ==
    \/ \E c \in Conditions : AddFeedHttp(t, ResponseOf(threads[t].url, c))
    \/ \E c \in Conditions :
          /\ At(t, "getLatestNews_http")
          /\ GetLatestNewsHttp(t, ResponseOf(feeds_[threads[t].i].url, c))

\* thread t goes on in the call it is in, by code of the service
LocalStep(t) ==
    \/ AddFeedLock(t)
    \/ AddFeedFind(t)
    \/ AddFeedAppend(t)
    \/ RemoveFeedFirst(t)
    \/ RemoveFeedFind(t)
    \/ RemoveFeedSecond(t)
    \/ RemoveFeedErase(t)
    \/ GetLatestNewsLock(t)
    \/ GetLatestNewsLoop(t)
    \/ GetCachedNewsLock(t)
    \/ GetCachedNewsLookup(t)
    \/ GetLatestNewsRecord(t)
    \/ SetCachedNewsLock(t)
    \/ SetCachedNewsInsert(t)
    \/ RefreshAllFeedsSize(t)
    \/ GetFeedsLock(t)
    \/ GetFeedsRead(t)
    \/ GetStatusFeeds(t)
    \/ GetStatusCount(t)
    \/ GetStatusCache(t)
    \/ GetStatusSize(t)
    \/ ClearCacheLock(t)
    \/ ClearCacheClear(t)
    \/ SetCacheTTLStore(t)

NextThreads ==
    \E t \in Threads :
       \/ \E c \in ThreadCalls : Invoke(t, c)
       \/ LocalStep(t)
       \/ HttpReturns(t)

\* every thread in a call is scheduled again, and no thread stays in
\* performHttpRequest for ever: weak fairness of HttpReturns(t), which is
\* enabled exactly when InHttp(t)
SpecThreads ==
    /\ InitThreads
    /\ [][NextThreads]_vars
    /\ \A t \in Threads :
          /\ WF_vars(LocalStep(t))
          /\ []<>(~InHttp(t)) \/ []<><<HttpReturns(t)>>_vars

----------------------------------------------------------------------------
(* The service with a filled cache *)

\* the service after initialize(MinTTL, DefaultMaxArticles) and a first
\* getLatestNews(false) with every server up: the registry and the cache are
\* what the loop over the default feeds leaves
InitServed ==
    /\ \E st \in {FeedLoop([feeds |-> [i \in 1..Len(DefaultFeeds) |->
                                          Feed(DefaultFeeds[i])],
                            cache |-> EmptyCache,
                            all_articles |-> <<>>, fetched |-> {}, requests |-> <<>>,
                            stored |-> {}, looked_up |-> {}, evicted |-> {}],
                           1, FALSE,
                           [i \in 1..Len(DefaultFeeds) |->
                               HttpOk(IF i = 1 THEN CnnDoc ELSE IF i = 2 THEN BbcDoc
                                      ELSE IF i = 3 THEN TechcrunchDoc
                                      ELSE Rss20Doc(<<"d">>, <<>>))],
                           MinTTL, DefaultMaxArticles, StartTime)} :
          /\ feeds_ = st.feeds
          /\ news_cache_ = st.cache
    /\ cache_ttl_seconds_ = MinTTL
    /\ max_articles_per_feed_ = DefaultMaxArticles
    /\ now = StartTime
    /\ sort_ties \in {"input_order", "reversed"}
    /\ world = "served"
    /\ call = Returned("getLatestNews", TRUE)
    /\ passes = 0
    /\ threads = [t \in Threads |-> IdleThread(0)]
    /\ mutexes = NoOwner

NextServed ==
    \/ \E f \in BOOLEAN, c \in Conditions : GetLatestNews(f, ResponsesIn(c, f))
    \/ \E u \in RemoveFeedArgs : RemoveFeed(u)
    \/ Tick

SpecServed == InitServed /\ [][NextServed]_vars

----------------------------------------------------------------------------
(* Aggregation passes of several threads *)

\* the service after initialize(MinTTL, DefaultMaxArticles) and removeFeed of
\* the feed whose document has no item: three feeds, an empty cache, the
\* threads in no call
InitPasses ==
    /\ feeds_ = [i \in 1..3 |-> Feed(DefaultFeeds[i])]
    /\ news_cache_ = EmptyCache
    /\ cache_ttl_seconds_ = MinTTL
    /\ max_articles_per_feed_ = DefaultMaxArticles
    /\ now = StartTime
    /\ sort_ties \in {"input_order", "reversed"}
    /\ world = "passes"
    /\ call = Returned("removeFeed", TRUE)
    /\ passes = 0
    /\ threads = [t \in Threads |-> IdleThread(0)]
    /\ mutexes = NoOwner

\* every thread calls getLatestNews(false) once, the clock advances
NextPasses ==
    \/ Tick
    \/ \E t \in Threads :
          \/ /\ threads[t].calls = 0
             /\ Invoke(t, [op |-> "getLatestNews", url |-> <<>>,
                           force_refresh |-> FALSE, ttl_seconds |-> 0])
          \/ GetLatestNewsLock(t)
          \/ GetLatestNewsLoop(t)
          \/ GetCachedNewsLock(t)
          \/ GetCachedNewsLookup(t)
          \/ \E c \in Conditions :
                /\ At(t, "getLatestNews_http")
                /\ GetLatestNewsHttp(t, ResponseOf(feeds_[threads[t].i].url, c))
          \/ GetLatestNewsRecord(t)
          \/ SetCachedNewsLock(t)
          \/ SetCachedNewsInsert(t)

SpecPasses == InitPasses /\ [][NextPasses]_vars

----------------------------------------------------------------------------
(* DashboardEngine: Initialize, Shutdown and the update thread *)

\* the threads of the host that call into the engine; each call is made with
\* g_engine_mutex held (main.cpp 103, 124, 401)
Hosts == {"h1", "h2"}

\* the threads std::thread can start for UpdateLoop
UpdateThreads == {"u1", "u2"}

\* the widget Initialize registers, and the ids the host starts
RegisteredIds == {"news"}
WidgetIds == {"news", "todo"}

\* a thread of the engine's world: where it is, the method it called last and
\* what that returned, the widgets whose Cleanup it has called in that call and
\* the widgets whose Update it has called in its current iteration, in order
EngineThread(pc) ==
    [pc |-> pc, method |-> pc, ret |-> "none", cleanups |-> <<>>, updates |-> <<>>]

\* h is back from method with ret, having called these Cleanups
Back(method, ret, cleanups) ==
    [pc |-> "idle", method |-> method, ret |-> ret, cleanups |-> cleanups,
     updates |-> <<>>]

\* a NewsWidget: whether its service was initialized, and whether the cache
\* of its service holds an entry
NewsWidget == [initialized |-> FALSE, cached |-> FALSE]

\* DashboardEngine(): no widget, no thread, not running
DashboardEngine ==
    [op |-> "DashboardEngine", running_ |-> FALSE, update_thread_ |-> "none",
     widgets_ |-> <<>>, terminated |-> FALSE]

InitEngine ==
    /\ feeds_ = <<>>
    /\ news_cache_ = EmptyCache
    /\ cache_ttl_seconds_ = DefaultTTL
    /\ max_articles_per_feed_ = DefaultMaxArticles
    /\ now = StartTime
    /\ sort_ties = "input_order"
    /\ world = "engine"
    /\ call = DashboardEngine
    /\ passes = 0
    /\ threads = [t \in Hosts \cup UpdateThreads |->
                    IF t \in Hosts THEN EngineThread("idle")
                                   ELSE EngineThread("unstarted")]
    /\ mutexes = [g_engine_mutex |-> "none"]

\* what no step of the engine touches
service == <<feeds_, news_cache_, cache_ttl_seconds_, max_articles_per_feed_,
             now, sort_ties, world, passes>>

\* the ids of widgets_, in the order the loops of the manager visit them
RECURSIVE WidgetOrder(_)
WidgetOrder(ids) ==
    IF ids = {} THEN <<>>
    ELSE LET id == CHOOSE x \in ids : TRUE
         IN  <<id>> \o WidgetOrder(ids \ {id})

\* the threads of UpdateLoop that were started and are not yet joined
Started == {u \in UpdateThreads : threads[u].pc # "unstarted"}

\* h takes g_engine_mutex and enters a method of the engine
Enter(h, method) ==
    /\ threads[h].pc = "idle"
    /\ mutexes.g_engine_mutex = "none"
    /\ method \in {"Initialize", "Shutdown"}
    /\ threads' = [threads EXCEPT ![h] = EngineThread(method)]
    /\ mutexes' = [mutexes EXCEPT !.g_engine_mutex = h]
    /\ UNCHANGED <<service, call>>

\* h returns ret from its method and releases g_engine_mutex
Leave(h, ret, cleanups) ==
    /\ threads' = [threads EXCEPT ![h] = Back(threads[h].method, ret, cleanups)]
    /\ mutexes' = [mutexes EXCEPT !.g_engine_mutex = "none"]

\* Initialize without its test of running_
InitializeUnchecked(h) ==
    /\ threads[h].pc = "Initialize"
    /\ threads' = [threads EXCEPT ![h].pc = "RegisterWidget"]
    /\ UNCHANGED <<service, call, mutexes>>

\* if (running_.load()) return false; if (!widget_manager_) return false;
InitializeChecked(h) ==
    /\ threads[h].pc = "Initialize"
    /\ IF call.running_
       THEN Leave(h, "false", <<>>)
       ELSE /\ threads' = [threads EXCEPT ![h].pc = "RegisterWidget"]
            /\ UNCHANGED mutexes
    /\ UNCHANGED <<service, call>>

\* RegisterWidget<NewsWidget>("news"): an id already in widgets_ is left alone
RegisterWidget(h) ==
    /\ threads[h].pc = "RegisterWidget"
    /\ call' = [call EXCEPT !.widgets_ =
                  [id \in DOMAIN call.widgets_ \cup RegisteredIds |->
                     IF id \in DOMAIN call.widgets_ THEN call.widgets_[id]
                     ELSE NewsWidget]]
    /\ threads' = [threads EXCEPT ![h].pc = "running_"]
    /\ UNCHANGED <<service, mutexes>>

\* running_ = true;
InitializeRunning(h) ==
    /\ threads[h].pc = "running_"
    /\ call' = [call EXCEPT !.running_ = TRUE]
    /\ threads' = [threads EXCEPT ![h].pc = "update_thread_"]
    /\ UNCHANGED <<service, mutexes>>

\* update_thread_ = std::thread(&DashboardEngine::UpdateLoop, this); return true;
\* the new thread is started first, and assigning it to a joinable thread
\* calls std::terminate
InitializeThread(h) ==
    /\ threads[h].pc = "update_thread_"
    /\ LET u == CHOOSE x \in UpdateThreads : threads[x].pc = "unstarted"
       IN  /\ threads' = [threads EXCEPT
                            ![u] = EngineThread("UpdateLoop"),
                            ![h] = Back("Initialize", "true", <<>>)]
           /\ call' = IF call.update_thread_ = "none"
                      THEN [call EXCEPT !.update_thread_ = u]
                      ELSE [call EXCEPT !.terminated = TRUE]
    /\ mutexes' = [mutexes EXCEPT !.g_engine_mutex = "none"]
    /\ UNCHANGED service

\* if (!running_.load()) return;
ShutdownChecked(h) ==
    /\ threads[h].pc = "Shutdown"
    /\ IF ~call.running_
       THEN Leave(h, "void", <<>>)
       ELSE /\ threads' = [threads EXCEPT ![h].pc = "running_ = false"]
            /\ UNCHANGED mutexes
    /\ UNCHANGED <<service, call>>

\* running_ = false;
ShutdownRunning(h) ==
    /\ threads[h].pc = "running_ = false"
    /\ call' = [call EXCEPT !.running_ = FALSE]
    /\ threads' = [threads EXCEPT ![h].pc = "join"]
    /\ UNCHANGED <<service, mutexes>>

\* if (update_thread_.joinable()) update_thread_.join(); join returns when
\* UpdateLoop has returned
ShutdownJoin(h) ==
    /\ threads[h].pc = "join"
    /\ IF call.update_thread_ = "none"
       THEN /\ threads' = [threads EXCEPT ![h].pc = "ShutdownAllWidgets"]
            /\ UNCHANGED call
       ELSE /\ threads[call.update_thread_].pc = "done"
            /\ threads' = [threads EXCEPT
                             ![call.update_thread_] = EngineThread("unstarted"),
                             ![h].pc = "ShutdownAllWidgets"]
            /\ call' = [call EXCEPT !.update_thread_ = "none"]
    /\ UNCHANGED <<service, mutexes>>

\* WidgetManager::ShutdownAllWidgets under widgets_mutex_: Cleanup of every
\* widget, which clears the cache of its service; then Shutdown returns
ShutdownAllWidgets(h) ==
    /\ threads[h].pc = "ShutdownAllWidgets"
    /\ call' = [call EXCEPT !.widgets_ =
                  [id \in DOMAIN call.widgets_ |->
                     [call.widgets_[id] EXCEPT !.cached = FALSE]]]
    /\ Leave(h, "void", WidgetOrder(DOMAIN call.widgets_))
    /\ UNCHANGED service

\* StartWidget(id) in one call of the host: false for an id that is not in
\* widgets_, Initialize of the widget otherwise, which fails without a handle
StartWidget(h, id, handle) ==
    /\ threads[h].pc = "idle"
    /\ mutexes.g_engine_mutex = "none"
    /\ IF id \in DOMAIN call.widgets_
       THEN /\ call' = [call EXCEPT !.widgets_[id].initialized = handle]
            /\ threads' = [threads EXCEPT ![h] =
                  Back("StartWidget", IF handle THEN "true" ELSE "false", <<>>)]
       ELSE /\ UNCHANGED call
            /\ threads' = [threads EXCEPT ![h] = Back("StartWidget", "false", <<>>)]
    /\ UNCHANGED <<service, mutexes>>

\* StopWidget(id) in one call of the host: Cleanup of the widget, if found
StopWidget(h, id) ==
    /\ threads[h].pc = "idle"
    /\ mutexes.g_engine_mutex = "none"
    /\ IF id \in DOMAIN call.widgets_
       THEN /\ call' = [call EXCEPT !.widgets_[id].cached = FALSE]
            /\ threads' = [threads EXCEPT ![h] = Back("StopWidget", "void", <<id>>)]
       ELSE /\ UNCHANGED call
            /\ threads' = [threads EXCEPT ![h] = Back("StopWidget", "void", <<>>)]
    /\ UNCHANGED <<service, mutexes>>

\* while (running_.load())
UpdateLoop(u) ==
    /\ threads[u].pc = "UpdateLoop"
    /\ threads' = [threads EXCEPT ![u] =
          [@ EXCEPT !.pc = IF call.running_ THEN "UpdateAllWidgets" ELSE "done",
                    !.updates = <<>>]]
    /\ UNCHANGED <<service, call, mutexes>>

\* WidgetManager::UpdateAllWidgets under widgets_mutex_: Update of every
\* active widget (a NewsWidget is always active); the pass of an initialized
\* service may store an entry
UpdateAllWidgets(u, stored) ==
    /\ threads[u].pc = "UpdateAllWidgets"
    /\ call' = [call EXCEPT !.widgets_ =
                  [id \in DOMAIN call.widgets_ |->
                     [call.widgets_[id] EXCEPT !.cached =
                        @ \/ (stored /\ call.widgets_[id].initialized)]]]
    /\ threads' = [threads EXCEPT ![u] =
          [@ EXCEPT !.pc = "sleep_for",
                    !.updates = WidgetOrder(DOMAIN call.widgets_)]]
    /\ UNCHANGED <<service, mutexes>>

\* std::this_thread::sleep_for(update_interval_);
SleepFor(u) ==
    /\ threads[u].pc = "sleep_for"
    /\ threads' = [threads EXCEPT ![u].pc = "UpdateLoop"]
    /\ UNCHANGED <<service, call, mutexes>>

NextEngine ==
    \/ \E h \in Hosts, method \in {"Initialize", "Shutdown"} :
          ~call.terminated /\ Enter(h, method)
    \/ \E h \in Hosts : ~call.terminated /\ InitializeChecked(h)
    \/ \E h \in Hosts : ~call.terminated /\ RegisterWidget(h)
    \/ \E h \in Hosts : ~call.terminated /\ InitializeRunning(h)
    \/ \E h \in Hosts : ~call.terminated /\ InitializeThread(h)
    \/ \E h \in Hosts : ~call.terminated /\ ShutdownChecked(h)
    \/ \E h \in Hosts : ~call.terminated /\ ShutdownRunning(h)
    \/ \E h \in Hosts : ~call.terminated /\ ShutdownJoin(h)
    \/ \E h \in Hosts : ~call.terminated /\ ShutdownAllWidgets(h)
    \/ \E h \in Hosts, id \in WidgetIds, handle \in BOOLEAN :
          ~call.terminated /\ StartWidget(h, id, handle)
    \/ \E h \in Hosts, id \in WidgetIds : ~call.terminated /\ StopWidget(h, id)
    \/ \E u \in UpdateThreads : ~call.terminated /\ UpdateLoop(u)
    \/ \E u \in UpdateThreads, stored \in BOOLEAN :
          ~call.terminated /\ UpdateAllWidgets(u, stored)
    \/ \E u \in UpdateThreads : ~call.terminated /\ SleepFor(u)

SpecEngine == InitEngine /\ [][NextEngine]_vars

----------------------------------------------------------------------------
(* What the claims are stated with *)

\* the last handler was an aggregation pass
Pass == call.op = "getLatestNews"

\* the step is a getLatestNews(force_refresh)
PassStep(force_refresh) == passes' = passes + 1 /\ call'.force_refresh = force_refresh

KeyOf(i) == generateCacheKey(feeds_[i].url)

Ids(articles) == {articles[i].id : i \in 1..Len(articles)}

Dates(articles) == [i \in 1..Len(articles) |-> articles[i].published_date]

\* the cache holds an entry for the key that has not expired
Fresh(cache_key) ==
    cache_key \in DOMAIN news_cache_ /\ ~is_expired(news_cache_[cache_key], now)

\* feed i gave articles to the last pass, from its server or from the cache
Contributes(i) ==
    /\ feeds_[i].is_active
    /\ \/ feeds_[i].url \in call.stored
       \/ KeyOf(i) \in call.looked_up /\ feeds_[i].url \notin call.fetched

\* the lists of the contributing feeds, in registry order
RECURSIVE ConcatFeeds(_)
ConcatFeeds(i) ==
    IF i > Len(feeds_) THEN <<>>
    ELSE (IF Contributes(i) THEN news_cache_[KeyOf(i)].articles ELSE <<>>)
         \o ConcatFeeds(i + 1)

FirstIndex(articles, id) ==
    CHOOSE i \in 1..Len(articles) :
        articles[i].id = id /\ \A j \in 1..(i - 1) : articles[j].id # id

----------------------------------------------------------------------------
(* C1 *)

\* C1 as stated: a getLatestNews(false) that follows a getLatestNews(false)
\* with no handler in between, while no entry the first call stored has
\* expired, asks no server and returns the list the first call returned.
C1_IdempotenceAsStated ==
    [][(/\ Pass /\ ~call.force_refresh
        /\ PassStep(FALSE)
        /\ \A u \in call.stored : Fresh(generateCacheKey(u)))
       => (call'.fetched = {} /\ call'.result = call.result)]_vars

\* C1 amended: the same when at the second call every active feed has a cache
\* entry that has not expired.
C1_Idempotence ==
    [][(/\ Pass /\ ~call.force_refresh
        /\ PassStep(FALSE)
        /\ \A i \in 1..Len(feeds_) : feeds_[i].is_active => Fresh(KeyOf(i)))
       => (call'.fetched = {} /\ call'.result = call.result)]_vars

\* a second pass served from the cache alone, over at least three feeds
C1_Witness ==
    /\ Pass /\ ~call.force_refresh /\ passes = 2
    /\ Len(feeds_) >= 3
    /\ call.fetched = {}
    /\ Cardinality(call.looked_up) = Len(feeds_)
    /\ Len(call.result) >= 3

----------------------------------------------------------------------------
(* C2 *)

\* what feed i yields from its response when it is the only feed
Alone(i, response) ==
    AfterFetch(feeds_[i], EmptyCache, KeyOf(i), response, cache_ttl_seconds_,
               max_articles_per_feed_, now)

\* C2: in a pass, every feed that is asked and whose response parses to
\* articles has them in the merged list and ends with an empty last_error,
\* whatever the other feeds answer; every feed whose response fails ends with
\* a non-empty last_error; and over CNN (500), BBC (malformed) and TECHCRUNCH
\* (two items) with an empty cache the result is the two articles.
C2_GracefulDegradation ==
    [][\A c \in Conditions :
         (PassStep(FALSE) /\ GetLatestNews(FALSE, ResponsesIn(c, FALSE)))
         => /\ \A i \in 1..Len(feeds_) :
                 NeedsRequest(i, FALSE) =>
                    LET alone == Alone(i, ResponseOf(feeds_[i].url, c))
                    IN IF alone.articles # <<>>
                       THEN /\ Ids(alone.articles) \subseteq Ids(call'.unique_articles)
                            /\ Ids(alone.articles) \subseteq Ids(call'.result)
                            /\ feeds_'[i].last_error = ""
                       ELSE feeds_'[i].last_error # ""
            /\ (/\ c = "degraded"
                /\ news_cache_ = EmptyCache
                /\ [i \in 1..Len(feeds_) |-> feeds_[i].url] = <<CNN, BBC, TECHCRUNCH>>)
               => /\ Len(call'.result) = 2
                  /\ Range(call'.result) = Range(Alone(3, HttpOk(TechcrunchDoc)).articles)
                  /\ feeds_'[1].last_error # ""
                  /\ feeds_'[2].last_error # ""
                  /\ feeds_'[3].last_error = ""]_vars

\* after the pass over the three feeds: two articles, two feeds in error
C2_Witness ==
    /\ Pass /\ ~call.force_refresh
    /\ [i \in 1..Len(feeds_) |-> feeds_[i].url] = <<CNN, BBC, TECHCRUNCH>>
    /\ call.fetched = {CNN, BBC, TECHCRUNCH}
    /\ call.looked_up = {KeyOf(1), KeyOf(2), KeyOf(3)}
    /\ call.stored = {TECHCRUNCH}
    /\ feeds_[1].last_error = "HTTP error: 500"
    /\ feeds_[2].last_error = "Failed to parse feed content"
    /\ feeds_[3].last_error = ""
    /\ Len(call.result) = 2

----------------------------------------------------------------------------
(* C3 *)

\* C3: the list a pass returns holds no id twice, and articles of the
\* collected lists with the same title and link have the same id and one
\* instance in the merged list.
C3_NoDuplicateIds ==
    Pass =>
      /\ \A i, j \in 1..Len(call.result) :
            i # j => call.result[i].id # call.result[j].id
      /\ \A a, b \in Range(call.all_articles) :
            (a.title = b.title /\ a.link = b.link) =>
               /\ a.id = b.id
               /\ Cardinality({k \in 1..Len(call.unique_articles) :
                                 call.unique_articles[k].id = a.id}) = 1
               /\ Len(call.unique_articles) <= GlobalCap =>
                    Cardinality({k \in 1..Len(call.result) :
                                   call.result[k].id = a.id}) = 1

\* two feeds gave an article with the same title and link
C3_Witness ==
    /\ Pass
    /\ \E i, j \in 1..Len(call.all_articles) :
          /\ i < j
          /\ call.all_articles[i].title = call.all_articles[j].title
          /\ call.all_articles[i].link = call.all_articles[j].link
          /\ call.all_articles[i].source # call.all_articles[j].source
          /\ Cardinality({k \in 1..Len(call.result) :
                            call.result[k].id = call.all_articles[i].id}) = 1

----------------------------------------------------------------------------
(* C4 *)

\* C4: the collected list is the lists of the feeds in registry order; of
\* every id the instance kept is the first of the collected list, and the
\* kept articles are in the order of their first occurrences.
C4_KeepsFirstOccurrence ==
    Pass =>
      LET all == call.all_articles
          unique == call.unique_articles
      IN /\ all = ConcatFeeds(1)
         /\ Ids(unique) = Ids(all)
         /\ \A k \in 1..Len(unique) : unique[k] = all[FirstIndex(all, unique[k].id)]
         /\ \A k1, k2 \in 1..Len(unique) :
               k1 < k2 => FirstIndex(all, unique[k1].id) < FirstIndex(all, unique[k2].id)
         /\ Range(call.result) \subseteq Range(unique)

\* an id came from two feeds in different instances; the first is returned
C4_Witness ==
    /\ Pass
    /\ \E i, j \in 1..Len(call.all_articles) :
          /\ i < j
          /\ call.all_articles[i].id = call.all_articles[j].id
          /\ call.all_articles[i] # call.all_articles[j]
          /\ call.all_articles[i] \in Range(call.result)
          /\ call.all_articles[j] \notin Range(call.result)

----------------------------------------------------------------------------
(* C5 *)

\* C5: the list a pass returns is in non-increasing order of published_date.
C5_NewestFirst ==
    Pass =>
      \A i, j \in 1..Len(call.result) :
         i < j => call.result[i].published_date >= call.result[j].published_date

\* articles collected with the dates 300, 100, 200, in this order, returned
\* in the order 300, 200, 100
C5_Witness ==
    /\ Pass
    /\ \E a, b, c \in 1..Len(call.unique_articles) :
          /\ a < b /\ b < c
          /\ call.unique_articles[a].published_date = 300
          /\ call.unique_articles[b].published_date = 100
          /\ call.unique_articles[c].published_date = 200
          /\ \E i, j, k \in 1..Len(call.result) :
                /\ i < j /\ j < k
                /\ call.result[i] = call.unique_articles[a]
                /\ call.result[j] = call.unique_articles[c]
                /\ call.result[k] = call.unique_articles[b]

----------------------------------------------------------------------------
(* C6 *)

\* C6 as stated: articles with equal published_date are returned in the
\* order they have in the deduplicated list.
C6_StableSort ==
    Pass =>
      \A i, j \in 1..Len(call.result) :
         (i < j /\ call.result[i].published_date = call.result[j].published_date)
         => FirstIndex(call.unique_articles, call.result[i].id)
              < FirstIndex(call.unique_articles, call.result[j].id)

----------------------------------------------------------------------------
(* C7 *)

\* C7: a pass returns at most GlobalCap articles: as many as were collected
\* without duplicates if these are no more than GlobalCap, otherwise GlobalCap
\* of them, newest first, none of the dropped ones newer than a kept one.
C7_GlobalCap ==
    Pass =>
      LET unique == call.unique_articles
          result == call.result
      IN /\ Len(result) <= GlobalCap
         /\ Len(result) = Min(GlobalCap, Len(unique))
         /\ Range(result) \subseteq Range(unique)
         /\ Cardinality(Ids(result)) = Len(result)
         /\ \A i \in 1..(Len(result) - 1) :
               result[i].published_date >= result[i + 1].published_date
         /\ \A d \in Range(unique) \ Range(result) :
               \A k \in Range(result) : ~(d.published_date > k.published_date)

\* more than GlobalCap articles were collected, some of them twice
C7_Witness ==
    /\ Pass
    /\ Len(call.all_articles) > Len(call.unique_articles)
    /\ Len(call.unique_articles) > GlobalCap
    /\ Len(call.result) = GlobalCap

----------------------------------------------------------------------------
(* C8 *)

\* C8: every list a handler puts into the cache has at most
\* max_articles_per_feed_ elements, which is at most MaxArticlesCeiling.
C8_PerFeedCap ==
    [][\A k \in DOMAIN news_cache_' :
         (k \notin DOMAIN news_cache_ \/ news_cache_'[k] # news_cache_[k])
         => /\ Len(news_cache_'[k].articles) <= max_articles_per_feed_
            /\ Len(news_cache_'[k].articles) <= MaxArticlesCeiling]_vars

\* CNN's document of three items was parsed with a cap of two
C8_Witness ==
    /\ Pass
    /\ CNN \in call.stored
    /\ Len(CnnDoc.items) > max_articles_per_feed_
    /\ Len(news_cache_[generateCacheKey(CNN)].articles) = max_articles_per_feed_

----------------------------------------------------------------------------
(* C9 *)

\* C9: an entry is stored with cached_at = now and expires_at = now +
\* cache_ttl_seconds_; a getLatestNews(false) at a time up to and including
\* expires_at returns the entry's articles, asks no server and leaves the
\* entry as it is; at a later time it erases the entry and asks the server.
C9_CacheExpiry ==
    [][/\ (PassStep(FALSE) \/ PassStep(TRUE)) =>
             \A u \in call'.stored :
                /\ news_cache_'[generateCacheKey(u)].cached_at = now
                /\ news_cache_'[generateCacheKey(u)].expires_at
                      = now + cache_ttl_seconds_
       /\ PassStep(FALSE) =>
             \A i \in 1..Len(feeds_) :
                (feeds_[i].is_active /\ KeyOf(i) \in DOMAIN news_cache_) =>
                   LET entry == news_cache_[KeyOf(i)]
                   IN IF now <= entry.expires_at
                      THEN /\ feeds_[i].url \notin call'.fetched
                           /\ news_cache_'[KeyOf(i)] = entry
                           /\ Range(entry.articles) \subseteq Range(call'.all_articles)
                      ELSE /\ feeds_[i].url \in call'.fetched
                           /\ KeyOf(i) \in call'.evicted]_vars

\* an entry stored with a TTL of MinTTL seconds served at the instant expires_at
C9_Witness ==
    /\ Pass /\ ~call.force_refresh
    /\ \E i \in 1..Len(feeds_) :
          /\ KeyOf(i) \in call.looked_up
          /\ feeds_[i].url \notin call.fetched
          /\ KeyOf(i) \in DOMAIN news_cache_
          /\ news_cache_[KeyOf(i)].expires_at = news_cache_[KeyOf(i)].cached_at + MinTTL
          /\ news_cache_[KeyOf(i)].expires_at = now
          /\ Range(news_cache_[KeyOf(i)].articles) \subseteq Range(call.all_articles)

----------------------------------------------------------------------------
(* C10 *)

\* C10: a key leaves the cache only by clearCache, by the removeFeed of its
\* URL, or by a getLatestNews(false) that looks it up after it has expired;
\* the clock alone changes nothing in the cache; the lookup of an expired key
\* erases the entry and returns nothing, so that the server is asked.
C10_ReadTimeEviction ==
    [][/\ now' # now => news_cache_' = news_cache_
       /\ \A k \in DOMAIN news_cache_ \ DOMAIN news_cache_' :
            \/ call'.op = "clearCache"
            \/ /\ call'.op = "removeFeed" /\ call'.ret
               /\ \E i \in 1..Len(feeds_) :
                     /\ k = KeyOf(i)
                     /\ \A j \in 1..Len(feeds_') : feeds_'[j].url # feeds_[i].url
            \/ /\ PassStep(FALSE)
               /\ k \in call'.looked_up
               /\ is_expired(news_cache_[k], now)
       /\ PassStep(FALSE) =>
            \A i \in 1..Len(feeds_) :
               (/\ feeds_[i].is_active
                /\ KeyOf(i) \in DOMAIN news_cache_
                /\ is_expired(news_cache_[KeyOf(i)], now))
               => /\ KeyOf(i) \in call'.evicted
                  /\ feeds_[i].url \in call'.fetched
                  /\ KeyOf(i) \in DOMAIN news_cache_' => feeds_[i].url \in call'.stored]_vars

\* a pass erased an expired entry; the server failed, the key is gone
C10_Witness ==
    /\ Pass /\ ~call.force_refresh
    /\ \E i \in 1..Len(feeds_) :
          /\ KeyOf(i) \in call.evicted
          /\ KeyOf(i) \in call.looked_up
          /\ feeds_[i].url \in call.fetched
          /\ KeyOf(i) \notin DOMAIN news_cache_
    /\ DOMAIN news_cache_ # {}

----------------------------------------------------------------------------
(* C11 *)

\* C11: setCacheTTL leaves every cache entry as it is (articles, cached_at,
\* expires_at), and an entry stored by a later pass gets cached_at = now and
\* expires_at = now + the cache_ttl_seconds_ then in force.
C11_TTLFixedAtStore ==
    [][/\ call'.op = "setCacheTTL" => news_cache_' = news_cache_
       /\ passes' = passes + 1 =>
             \A u \in call'.stored :
                /\ news_cache_'[generateCacheKey(u)].cached_at = now
                /\ news_cache_'[generateCacheKey(u)].expires_at
                      = now + cache_ttl_seconds_]_vars

\* setCacheTTL has returned, an entry stored with another TTL is in the cache
C11_Witness ==
    /\ call.op = "setCacheTTL"
    /\ \E k \in DOMAIN news_cache_ :
          /\ news_cache_[k].articles # <<>>
          /\ news_cache_[k].expires_at - news_cache_[k].cached_at # cache_ttl_seconds_

----------------------------------------------------------------------------
(* C12 *)

----------------------------------------------------------------------------
(* C13 *)

\* C13: addFeed returns false and changes neither feeds_ nor the cache when
\* the URL is registered, when the request fails or its status is not 200, or
\* when the body is of UNKNOWN type; when it returns true none of these is the
\* case and feeds_ has grown by one feed with the URL at its end. No two feeds
\* of feeds_ have the same URL.
C13_AddFeedValidation ==
    [][/\ \A u \in AddFeedArgs, c \in Conditions :
             AddFeed(u, ResponseOf(u, c)) =>
                LET response == ResponseOf(u, c)
                    rejected ==
                        \/ \E i \in 1..Len(feeds_) : feeds_[i].url = u
                        \/ ~response.success
                        \/ response.status_code # 200
                        \/ detectFeedType(response.data) = "UNKNOWN"
                IN /\ rejected =>
                         (~call'.ret /\ feeds_' = feeds_ /\ news_cache_' = news_cache_)
                   /\ call'.ret =>
                         /\ ~rejected
                         /\ Len(feeds_') = Len(feeds_) + 1
                         /\ SubSeq(feeds_', 1, Len(feeds_)) = feeds_
                         /\ feeds_'[Len(feeds_')].url = u
                         /\ news_cache_' = news_cache_
       /\ \A i, j \in 1..Len(feeds_') :
             feeds_'[i].url = feeds_'[j].url => i = j]_vars

\* a feed added behind the default feeds
C13_Witness ==
    /\ call.op = "addFeed" /\ call.ret
    /\ Len(feeds_) = Len(DefaultFeeds) + 1
    /\ feeds_[Len(feeds_)].url = EXAMPLE
    /\ \A i \in 1..Len(DefaultFeeds) : feeds_[i].url = DefaultFeeds[i]

----------------------------------------------------------------------------
(* C14 *)

\* C14: removeFeed returns true exactly when the URL is registered; then the
\* feed with the URL is gone from feeds_ and the entry with its key from the
\* cache, the other feeds and entries are as before; when it returns false
\* nothing has changed.
C14_RemoveFeed ==
    [][\A u \in RemoveFeedArgs :
          RemoveFeed(u) =>
             LET registered == \E i \in 1..Len(feeds_) : feeds_[i].url = u
                 others == SelectSeq(feeds_, LAMBDA f : f.url # u)
                 cache_key == generateCacheKey(u)
             IN /\ call'.ret = registered
                /\ registered =>
                      /\ \A i \in 1..Len(feeds_') : feeds_'[i].url # u
                      /\ feeds_' = others
                      /\ Len(feeds_') = Len(feeds_) - 1
                      /\ cache_key \notin DOMAIN news_cache_'
                      /\ DOMAIN news_cache_' = DOMAIN news_cache_ \ {cache_key}
                      /\ \A k \in DOMAIN news_cache_' : news_cache_'[k] = news_cache_[k]
                /\ ~registered =>
                      (feeds_' = feeds_ /\ news_cache_' = news_cache_)]_vars

\* removeFeed has erased the entry of the feed, other feeds and entries remain
C14_Witness ==
    /\ call.op = "removeFeed" /\ call.ret
    /\ call.evicted # {}
    /\ call.evicted \cap DOMAIN news_cache_ = {}
    /\ DOMAIN news_cache_ # {}
    /\ feeds_ # <<>>

----------------------------------------------------------------------------
(* C15 *)

----------------------------------------------------------------------------
(* C16 *)

\* what the parsers make of a response with status 200
Parsed(i, response) ==
    LET type == detectFeedType(response.data)
    IN IF type = "RSS_2_0" \/ type = "RSS_1_0"
       THEN parseRSSFeed(response.data, feeds_[i], max_articles_per_feed_, now)
       ELSE IF type = "ATOM_1_0"
       THEN parseAtomFeed(response.data, feeds_[i], max_articles_per_feed_, now)
       ELSE <<>>

\* C16: a feed that a pass asks and whose response has status 200 and parses
\* to a non-empty list ends with last_updated = now and an empty last_error,
\* and its cache entry is the parsed list with cached_at = now and expires_at
\* = now + cache_ttl_seconds_, whatever entry was there.
C16_SuccessfulRefresh ==
    [][\A f \in BOOLEAN, c \in Conditions :
          GetLatestNews(f, ResponsesIn(c, f)) =>
             \A i \in 1..Len(feeds_) :
                LET response == ResponseOf(feeds_[i].url, c)
                IN (/\ NeedsRequest(i, f)
                    /\ response.success /\ response.status_code = 200
                    /\ Parsed(i, response) # <<>>)
                   => /\ feeds_'[i].last_updated = now
                      /\ feeds_'[i].last_fetch_attempt = now
                      /\ feeds_'[i].last_error = ""
                      /\ KeyOf(i) \in DOMAIN news_cache_'
                      /\ news_cache_'[KeyOf(i)]
                            = CacheEntry(Parsed(i, response), now,
                                         now + cache_ttl_seconds_)]_vars

\* a pass has erased an expired entry and stored the new list in its place
C16_Witness ==
    /\ Pass
    /\ \E i \in 1..Len(feeds_) :
          /\ feeds_[i].url \in call.stored
          /\ KeyOf(i) \in call.evicted
          /\ feeds_[i].last_updated = now
          /\ feeds_[i].last_error = ""
          /\ news_cache_[KeyOf(i)].cached_at = now
          /\ news_cache_[KeyOf(i)].expires_at = now + cache_ttl_seconds_

----------------------------------------------------------------------------
(* C17 *)

\* C17: every feed of feeds_ is active, and a feed of feeds_ is there and
\* active after every call of getLatestNews, refreshAllFeeds, addFeed,
\* clearCache and setCacheTTL, and after every removeFeed that is not the
\* successful removeFeed of its URL.
C17_NeverDisabled ==
    [][/\ \A i \in 1..Len(feeds_') : feeds_'[i].is_active
       /\ call'.op # "initialize" =>
             \A i \in 1..Len(feeds_) :
                \/ \E j \in 1..Len(feeds_') :
                      /\ feeds_'[j].url = feeds_[i].url
                      /\ feeds_'[j].is_active
                \/ /\ call'.op = "removeFeed" /\ call'.ret
                   /\ \A u \in RemoveFeedArgs :
                         RemoveFeed(u) => u = feeds_[i].url]_vars

\* refreshAllFeeds has failed on a feed for the second time
C17_Witness ==
    /\ call.op = "refreshAllFeeds"
    /\ passes = 2
    /\ \E i \in 1..Len(feeds_) :
          /\ feeds_[i].url \in call.fetched
          /\ feeds_[i].url \notin call.stored
          /\ feeds_[i].last_error # ""
          /\ feeds_[i].last_updated = 0
          /\ feeds_[i].is_active

----------------------------------------------------------------------------
(* C18 *)

\* C18: a feed asked by a pass ends with last_error = "HTTP error: 500" when
\* the status is 500, with "Failed to parse feed content" when the status is
\* 200 and the body is malformed, of UNKNOWN type or without an accepted
\* article, and with a non-empty last_error when the request fails at
\* transport level; the feeds behind it are still visited.
C18_ErrorTaxonomy ==
    [][\A f \in BOOLEAN, c \in Conditions :
          GetLatestNews(f, ResponsesIn(c, f)) =>
             \A i \in 1..Len(feeds_) :
                LET response == ResponseOf(feeds_[i].url, c)
                IN NeedsRequest(i, f) =>
                      /\ (response.success /\ response.status_code = 500)
                            => feeds_'[i].last_error = "HTTP error: 500"
                      /\ (/\ response.success /\ response.status_code = 200
                          /\ \/ ~response.data.wellformed
                             \/ detectFeedType(response.data) = "UNKNOWN"
                             \/ Parsed(i, response) = <<>>)
                            => feeds_'[i].last_error = "Failed to parse feed content"
                      /\ ~response.success =>
                            /\ feeds_'[i].last_error # ""
                            /\ \A j \in (i + 1)..Len(feeds_) :
                                  NeedsRequest(j, f)
                                  => /\ feeds_'[j].last_fetch_attempt = now
                                     /\ feeds_[j].url \in call'.fetched]_vars

\* a pass with a status 500, a malformed body, a success and a transport failure
C18_Witness ==
    /\ Pass
    /\ Len(feeds_) >= 4
    /\ {feeds_[i].url : i \in 1..4} \subseteq call.fetched
    /\ feeds_[1].last_error = "HTTP error: 500"
    /\ feeds_[2].last_error = "Failed to parse feed content"
    /\ feeds_[3].last_error = ""
    /\ feeds_[4].last_error = "HTTP error: 0"

----------------------------------------------------------------------------
(* C19 *)

\* C19 as stated: no thread is in performHttpRequest while it holds
\* feeds_mutex_.
C19_NoLockAcrossHttp ==
    \A t \in Threads : InHttp(t) => ~Holds(t, "feeds_mutex_")

----------------------------------------------------------------------------
(* C20 *)

\* C20: every call a thread makes returns, whatever the other thread calls
\* meanwhile, given that every thread is scheduled again and every
\* performHttpRequest returns.
C20_EveryCallReturns ==
    \A t \in Threads : (~At(t, "idle")) ~> At(t, "idle")

\* a thread waits for feeds_mutex_, which the other thread holds while it is
\* in performHttpRequest
C20_Witness ==
    \E t, o \in Threads :
       /\ t # o
       /\ At(t, "removeFeed_first")
       /\ Holds(o, "feeds_mutex_")
       /\ At(o, "getLatestNews_http")

----------------------------------------------------------------------------
(* C21 *)

\* the items of a document that have a title left after stripHtmlTags and a link
KeptItems(items) ==
    SelectSeq(items, LAMBDA it : stripHtmlTags(it.title) # <<>> /\ it.link # <<>>)

\* C21: every article of every cache entry and of every list a pass collects
\* and returns has a non-empty title and a non-empty link; the list a pass
\* stores for a feed is, item for item and in document order, the items of
\* the response that have both (as many as max_articles_per_feed_ allows),
\* whatever items without title or link stand between them.
C21_ArticleAcceptance ==
    [][/\ \A k \in DOMAIN news_cache_' :
             \A a \in Range(news_cache_'[k].articles) : a.title # <<>> /\ a.link # <<>>
       /\ \A a \in Range(call'.all_articles) \cup Range(call'.result) :
             a.title # <<>> /\ a.link # <<>>
       /\ \A f \in BOOLEAN, c \in Conditions :
             GetLatestNews(f, ResponsesIn(c, f)) =>
                \A i \in 1..Len(feeds_) :
                   feeds_[i].url \in call'.stored =>
                      LET kept == KeptItems(ResponseOf(feeds_[i].url, c).data.items)
                          articles == news_cache_'[KeyOf(i)].articles
                      IN /\ Len(articles) = Min(Len(kept), max_articles_per_feed_)
                         /\ \A n \in 1..Len(articles) :
                               /\ articles[n].title = stripHtmlTags(kept[n].title)
                               /\ articles[n].link = kept[n].link]_vars

\* a pass has stored the lists of BBC and TECHCRUNCH, each without the item
\* that lacks a link or a title and with the item behind it
C21_Witness ==
    /\ Pass
    /\ {BBC, TECHCRUNCH} \subseteq call.stored
    /\ Len(KeptItems(BbcDoc.items)) < Len(BbcDoc.items)
    /\ Len(KeptItems(TechcrunchDoc.items)) < Len(TechcrunchDoc.items)
    /\ news_cache_[generateCacheKey(BBC)].articles[2].link = <<"y">>
    /\ news_cache_[generateCacheKey(TECHCRUNCH)].articles[2].title = <<"e">>

----------------------------------------------------------------------------
(* C22 *)

\* C22: for a feed with is_active = false a pass (forced or not) makes no
\* cache lookup and no request, leaves the feed record and its cache entry as
\* they are, and puts none of the entry's articles into the collected list,
\* also when the entry has not expired.
C22_OnlyActiveFeeds ==
    [][\A f \in BOOLEAN, c \in Conditions :
          GetLatestNews(f, ResponsesIn(c, f)) =>
             \A i \in 1..Len(feeds_) :
                ~feeds_[i].is_active =>
                   /\ KeyOf(i) \notin call'.looked_up
                   /\ feeds_[i].url \notin call'.fetched
                   /\ feeds_'[i] = feeds_[i]
                   /\ KeyOf(i) \in DOMAIN news_cache_ =>
                         /\ KeyOf(i) \in DOMAIN news_cache_'
                         /\ news_cache_'[KeyOf(i)] = news_cache_[KeyOf(i)]
                         /\ Range(news_cache_[KeyOf(i)].articles)
                               \cap Range(call'.all_articles) = {}
                         /\ Range(news_cache_[KeyOf(i)].articles)
                               \cap Range(call'.result) = {}]_vars

\* a second pass, not forced, over a registry whose first feed is switched
\* off and has an entry that has not expired; the other feeds gave articles
C22_Witness ==
    /\ Pass /\ ~call.force_refresh /\ passes = 2
    /\ Len(feeds_) = Len(DefaultFeeds)
    /\ ~feeds_[1].is_active
    /\ Fresh(KeyOf(1))
    /\ feeds_[1].last_updated = now
    /\ feeds_[1].url \notin call.fetched
    /\ KeyOf(1) \notin call.looked_up
    /\ call.result # <<>>

----------------------------------------------------------------------------
(* C23 *)

\* the requests of a pass that went to the URL
RequestsTo(requests, url) == Cardinality({n \in 1..Len(requests) : requests[n] = url})

\* C23: a forced pass looks nothing up and makes exactly one request for every
\* active feed, whatever the cache holds; a pass that is not forced makes one
\* request for an active feed that has no cache entry or an expired one, and
\* none for an active feed whose entry has not expired.
C23_ForceRefreshBypassesCache ==
    [][/\ PassStep(TRUE) =>
             /\ call'.looked_up = {}
             /\ Len(call'.requests)
                   = Cardinality({i \in 1..Len(feeds_) : feeds_[i].is_active})
             /\ \A i \in 1..Len(feeds_) :
                   feeds_[i].is_active =>
                      /\ RequestsTo(call'.requests, feeds_[i].url) = 1
                      /\ feeds_'[i].last_fetch_attempt = now
       /\ PassStep(FALSE) =>
             \A i \in 1..Len(feeds_) :
                feeds_[i].is_active =>
                   /\ KeyOf(i) \in call'.looked_up
                   /\ RequestsTo(call'.requests, feeds_[i].url)
                         = IF /\ KeyOf(i) \in DOMAIN news_cache_
                              /\ now <= news_cache_[KeyOf(i)].expires_at
                           THEN 0 ELSE 1]_vars

\* a forced pass over at least three feeds, one request each, though the
\* cache held an entry that had not expired: the request failed, the entry
\* is still the one stored earlier
C23_Witness ==
    /\ Pass /\ call.force_refresh /\ passes = 2
    /\ Len(feeds_) >= 3
    /\ Len(call.requests) = Len(feeds_)
    /\ call.looked_up = {}
    /\ \E i \in 1..Len(feeds_) :
          /\ feeds_[i].url \notin call.stored
          /\ Fresh(KeyOf(i))
          /\ feeds_[i].last_fetch_attempt = now
          /\ feeds_[i].last_updated = news_cache_[KeyOf(i)].cached_at

----------------------------------------------------------------------------
(* C24 *)

\* C24 as stated: refreshAllFeeds returns the number of feeds whose request
\* and parse succeeded in its forced pass, 0 when every feed failed.
C24_RefreshCount ==
    call.op = "refreshAllFeeds" => call.count = Cardinality(call.stored)

----------------------------------------------------------------------------
(* C25 *)

\* the strings of the "feeds" array of a configuration
ConfiguredUrls(config) ==
    IF config.valid /\ config.is_object /\ config.has_feeds /\ config.feeds_is_array
    THEN {config.feeds[n].str : n \in {m \in 1..Len(config.feeds) :
                                          config.feeds[m].type = "string"}}
    ELSE {}

----------------------------------------------------------------------------
(* C26 *)

\* whatever the network does, the server of feed i gives no accepted article
AlwaysEmpty(i) ==
    \A c \in Conditions :
       LET response == ResponseOf(feeds_[i].url, c)
       IN \/ ~response.success
          \/ response.status_code # 200
          \/ Parsed(i, response) = <<>>

\* C26: no cache entry holds an empty list; an active feed whose server
\* never gives an accepted article has no entry, and every pass, forced or
\* not, asks its server and leaves it without entry.
C26_EmptyNeverCached ==
    [][/\ \A k \in DOMAIN news_cache_' : news_cache_'[k].articles # <<>>
       /\ passes' = passes + 1 =>
             \A i \in 1..Len(feeds_) :
                (feeds_[i].is_active /\ AlwaysEmpty(i)) =>
                   /\ KeyOf(i) \notin DOMAIN news_cache_
                   /\ RequestsTo(call'.requests, feeds_[i].url) = 1
                   /\ KeyOf(i) \notin DOMAIN news_cache_'
                   /\ feeds_'[i].last_error # ""]_vars

\* a second pass over the default feeds, not forced: the first feed is served
\* from the entry the first pass stored, the fourth, whose document has no
\* item, is asked again and has no entry
C26_Witness ==
    /\ Pass /\ ~call.force_refresh /\ passes = 2
    /\ Len(feeds_) = Len(DefaultFeeds)
    /\ feeds_[1].url \notin call.fetched
    /\ Fresh(KeyOf(1))
    /\ feeds_[1].last_updated = news_cache_[KeyOf(1)].cached_at
    /\ feeds_[4].url = REDDIT
    /\ REDDIT \in call.fetched
    /\ feeds_[4].last_error = "Failed to parse feed content"
    /\ KeyOf(4) \notin DOMAIN news_cache_

----------------------------------------------------------------------------
(* C27 *)

\* C27: a thread that holds cache_mutex_ is at one lookup, insert, erase,
\* size or clear of news_cache_, not in performHttpRequest (where the response
\* is also parsed), and its next step unlocks the mutex.
C27_CacheLockScope ==
    [][\A t \in Threads :
          /\ mutexes'.cache_mutex_ = t =>
                /\ AccessesCache(t)'
                /\ ~InHttp(t)'
          /\ (Holds(t, "cache_mutex_") /\ threads'[t] # threads[t]) =>
                mutexes'.cache_mutex_ # t]_vars

\* a thread holds cache_mutex_ to store the list it has fetched and parsed
\* before; the other thread waits for the mutex in clearCache
C27_Witness ==
    \E t, o \in Threads :
       /\ t # o
       /\ At(t, "getLatestNews_insert")
       /\ Holds(t, "cache_mutex_")
       /\ threads[t].pending # <<>>
       /\ At(o, "clearCache_lock")

----------------------------------------------------------------------------
(* C28 *)

\* C28 as stated: a thread whose next statements read or write feeds_ holds
\* feeds_mutex_, and a thread whose next statements read or write news_cache_
\* holds cache_mutex_.
C28_LockCoverage ==
    \A t \in Threads :
       /\ AccessesRegistry(t) => Holds(t, "feeds_mutex_")
       /\ AccessesCache(t) => Holds(t, "cache_mutex_")

----------------------------------------------------------------------------
(* C29 *)

\* C29: a pass that finds an unexpired entry for an active feed leaves the
\* entry as it was (articles, their order, cached_at, expires_at); after any
\* pass an entry is either the one that was there before or, for a feed the
\* pass stored, the list the parser made of the response, whatever the
\* deduplication, the sort and the truncation do to the list returned.
C29_CallersReceiveCopies ==
    [][passes' = passes + 1 =>
          /\ \A i \in 1..Len(feeds_) :
                (/\ ~call'.force_refresh
                 /\ feeds_[i].is_active
                 /\ KeyOf(i) \in DOMAIN news_cache_
                 /\ ~is_expired(news_cache_[KeyOf(i)], now))
                => /\ KeyOf(i) \in DOMAIN news_cache_'
                   /\ news_cache_'[KeyOf(i)] = news_cache_[KeyOf(i)]
          /\ \A k \in DOMAIN news_cache_' :
                IF \E u \in call'.stored : k = generateCacheKey(u)
                THEN \E i \in 1..Len(feeds_), c \in Conditions :
                        /\ k = KeyOf(i)
                        /\ news_cache_'[k].articles
                              = Parsed(i, ResponseOf(feeds_[i].url, c))
                ELSE /\ k \in DOMAIN news_cache_
                     /\ news_cache_'[k] = news_cache_[k]]_vars

\* a pass served from entries stored earlier: the sort has put the second
\* article of one entry before its first, and an article of another entry is
\* not in the list returned; both entries are in the cache as they were stored
C29_Witness ==
    /\ Pass /\ ~call.force_refresh
    /\ \E i, j \in 1..Len(feeds_) :
          /\ {KeyOf(i), KeyOf(j)} \subseteq call.looked_up
          /\ {feeds_[i].url, feeds_[j].url} \cap call.fetched = {}
          /\ {KeyOf(i), KeyOf(j)} \subseteq DOMAIN news_cache_
          /\ news_cache_[KeyOf(i)].cached_at < now
          /\ LET a == news_cache_[KeyOf(i)].articles
             IN /\ Len(a) >= 2
                /\ {a[1], a[2]} \subseteq Range(call.result)
                /\ FirstIndex(call.result, a[2].id) < FirstIndex(call.result, a[1].id)
          /\ \E n \in 1..Len(news_cache_[KeyOf(j)].articles) :
                news_cache_[KeyOf(j)].articles[n] \notin Range(call.result)

----------------------------------------------------------------------------
(* C30 *)

\* C30 as stated: a document whose root is <rss> is RSS_2_0 when the root's
\* start tag has version="2.0" and RSS_1_0 otherwise, whatever else the
\* document holds; a document in which "<rss" occurs nowhere is ATOM_1_0 when
\* its root is <feed> and it holds the Atom namespace, and UNKNOWN when it
\* lacks "<feed" or the Atom namespace.
C30_FeedTypeDetection ==
    call.op = "detectFeedType" =>
       LET d == call.xml_content
       IN /\ d.root = "rss" =>
                call.ret = IF "version=\"2.0\"" \in d.root_attrs THEN "RSS_2_0"
                           ELSE "RSS_1_0"
          /\ (~d.has_rss_tag /\ d.root = "feed" /\ d.has_atom_ns) =>
                call.ret = "ATOM_1_0"
          /\ (~d.has_rss_tag /\ ~(d.has_feed_tag /\ d.has_atom_ns)) =>
                call.ret = "UNKNOWN"

----------------------------------------------------------------------------
(* C31 *)

\* C31 as stated: a call of performHttpRequest without a handle, or whose
\* transfer cURL reports as failed, returns success = false, status_code = 0
\* and a body that is not empty and is the error text, not what was received.
C31_FailureResult ==
    (/\ call.op = "performHttpRequest"
     /\ (~call.curl_handle \/ call.curl_result # "CURLE_OK"))
    => /\ ~call.ret.success
       /\ call.ret.status_code = 0
       /\ call.ret.data # <<>>
       /\ call.ret.data # call.received
       /\ \E r \in CurlResults : call.ret.data = <<curl_easy_strerror(r)>>

----------------------------------------------------------------------------
(* C32 *)

\* the date text the parsers read from an item or entry
DateOf(item) ==
    IF item.updated.fmt # "" THEN item.updated
    ELSE IF item.published.fmt # "" THEN item.published
    ELSE item.pubDate

\* C32 as stated: the article made of an item with title and link carries
\* the instant its date text names in the first of the formats RFC-822,
\* ISO-8601, bare date that it matches, and the current time when the text is
\* empty or matches none; no article collected by a pass carries
\* published_date = 0.
C32_DateFallback ==
    [][passes' = passes + 1 =>
          /\ \A a \in Range(call'.all_articles) : a.published_date # 0
          /\ \A i \in 1..Len(feeds_), c \in Conditions :
                (/\ feeds_[i].url \in call'.stored
                 /\ Parsed(i, ResponseOf(feeds_[i].url, c))
                       = news_cache_'[KeyOf(i)].articles)
                => LET kept == KeptItems(ResponseOf(feeds_[i].url, c).data.items)
                       articles == news_cache_'[KeyOf(i)].articles
                   IN \A n \in 1..Len(articles) :
                         articles[n].published_date =
                            IF DateOf(kept[n]).fmt \in {"rfc822", "iso8601", "date"}
                            THEN DateOf(kept[n]).t
                            ELSE now]_vars

----------------------------------------------------------------------------
(* C33 *)

\* C33: no thread locks feeds_mutex_ while it holds cache_mutex_ (so a thread
\* with both has locked feeds_mutex_ first), no thread that holds
\* cache_mutex_ is about to lock feeds_mutex_, and never do two threads each
\* wait for a mutex the other holds.
C33_NoDeadlock ==
    [][/\ \A t \in Threads :
             /\ (mutexes'.feeds_mutex_ = t /\ mutexes.feeds_mutex_ # t) =>
                   mutexes.cache_mutex_ # t
             /\ (mutexes'.cache_mutex_ = t /\ WaitsFor(t)' # "none") =>
                   WaitsFor(t)' # "feeds_mutex_"
       /\ ~ \E t, o \in Threads :
               /\ t # o
               /\ WaitsFor(t)' # "none" /\ mutexes'[WaitsFor(t)'] = o
               /\ WaitsFor(o)' # "none" /\ mutexes'[WaitsFor(o)'] = t]_vars

\* a pass holds feeds_mutex_ and waits for cache_mutex_ to store a list, the
\* other thread holds cache_mutex_ in clearCache
C33_Witness ==
    \E t, o \in Threads :
       /\ t # o
       /\ At(t, "getLatestNews_store")
       /\ Holds(t, "feeds_mutex_")
       /\ WaitsFor(t) = "cache_mutex_"
       /\ Holds(o, "cache_mutex_")
       /\ At(o, "clearCache_clear")

----------------------------------------------------------------------------
(* C34 *)

\* C34 as stated: every key of news_cache_ is the cache key of a feed in
\* feeds_, and the cache has no more entries than the registry has feeds.
C34_NoOrphanEntries ==
    /\ \A k \in DOMAIN news_cache_ : \E i \in 1..Len(feeds_) : k = KeyOf(i)
    /\ Cardinality(DOMAIN news_cache_) <= Len(feeds_)

----------------------------------------------------------------------------
(* C35 *)

\* C35: with calls of several threads interleaved, a step stores or replaces
\* a cache entry only under the key of a feed that is in feeds_; when
\* removeFeed(url) returns true, feeds_ has no feed url and news_cache_ no
\* entry for it; and a cache entry whose feed is not in feeds_ exists only
\* while a removeFeed holds feeds_mutex_, which no pass can hold then.
C35_NoResurrection ==
    [][/\ \A k \in DOMAIN news_cache_' :
             (k \notin DOMAIN news_cache_ \/ news_cache_'[k] # news_cache_[k]) =>
                \E i \in 1..Len(feeds_') : generateCacheKey(feeds_'[i].url) = k
       /\ \A t \in Threads :
             (threads[t].op = "removeFeed" /\ threads'[t].pc = "idle"
              /\ threads'[t].ret) =>
                /\ generateCacheKey(threads[t].url) \notin DOMAIN news_cache_'
                /\ \A i \in 1..Len(feeds_') : feeds_'[i].url # threads[t].url
       /\ \A k \in DOMAIN news_cache_' :
             \/ \E i \in 1..Len(feeds_') : generateCacheKey(feeds_'[i].url) = k
             \/ \E t \in Threads :
                   /\ threads'[t].op = "removeFeed"
                   /\ generateCacheKey(threads'[t].url) = k
                   /\ mutexes'.feeds_mutex_ = t]_vars

\* a pass is about to store the list it has fetched for a feed while the
\* other thread waits in removeFeed of that feed for feeds_mutex_
C35_Witness ==
    \E t, o \in Threads :
       /\ t # o
       /\ At(t, "removeFeed_first")
       /\ At(o, "getLatestNews_insert")
       /\ threads[o].pending # <<>>
       /\ feeds_[threads[o].i].url = threads[t].url

----------------------------------------------------------------------------
(* C36 *)

\* the number of requests the passes of all threads have made to a URL
FetchCount(url) ==
    Cardinality({<<t, n>> \in Threads \X (1..(3 * MaxCalls)) :
                    /\ n <= Len(threads[t].fetches)
                    /\ threads[t].fetches[n].url = url})

\* C36 as stated: with threads calling getLatestNews(false) on a service
\* whose cache is empty, as long as every request has given a list that was
\* stored, no active feed has been asked more than once by all passes
\* together; once a pass has returned every active feed has been asked
\* exactly once, and the passes that have returned have returned the same
\* list.
C36_NoDuplicateFetchAsStated ==
    (\A t \in Threads : \A n \in 1..Len(threads[t].fetches) :
        threads[t].fetches[n].stored)
    => /\ \A i \in 1..Len(feeds_) :
             feeds_[i].is_active => FetchCount(feeds_[i].url) <= 1
       /\ \A t \in Threads :
             (At(t, "idle") /\ threads[t].calls >= 1) =>
                \A i \in 1..Len(feeds_) :
                   feeds_[i].is_active => FetchCount(feeds_[i].url) = 1
       /\ \A t, o \in Threads :
             (At(t, "idle") /\ threads[t].calls >= 1
              /\ At(o, "idle") /\ threads[o].calls >= 1) =>
                threads[t].result = threads[o].result

\* C36 amended: the same as long as, besides, the clock has not passed the
\* expiry of any list stored (the time of its request + cache_ttl_seconds_).
C36_NoDuplicateFetch ==
    (\A t \in Threads : \A n \in 1..Len(threads[t].fetches) :
        /\ threads[t].fetches[n].stored
        /\ now <= threads[t].fetches[n].at + cache_ttl_seconds_)
    => /\ \A i \in 1..Len(feeds_) :
             feeds_[i].is_active => FetchCount(feeds_[i].url) <= 1
       /\ \A t \in Threads :
             (At(t, "idle") /\ threads[t].calls >= 1) =>
                \A i \in 1..Len(feeds_) :
                   feeds_[i].is_active => FetchCount(feeds_[i].url) = 1
       /\ \A t, o \in Threads :
             (At(t, "idle") /\ threads[t].calls >= 1
              /\ At(o, "idle") /\ threads[o].calls >= 1) =>
                threads[t].result = threads[o].result

\* both threads have returned from a pass with the same non-empty list; one
\* of them asked the three servers, the other none
C36_Witness ==
    \E t, o \in Threads :
       /\ t # o
       /\ At(t, "idle") /\ At(o, "idle")
       /\ threads[t].calls = 1 /\ threads[o].calls = 1
       /\ Len(threads[t].fetches) = 3
       /\ \A n \in 1..3 :
             /\ threads[t].fetches[n].stored
             /\ now <= threads[t].fetches[n].at + cache_ttl_seconds_
       /\ threads[o].fetches = <<>>
       /\ threads[t].result # <<>>
       /\ threads[t].result = threads[o].result

----------------------------------------------------------------------------
(* C37 *)

\* C37: when a forced pass asks a feed that has an unexpired cache entry and
\* the request fails, has a status other than 200 or parses to no article,
\* none of the entry's articles is in the list the pass collects or returns
\* and the entry stays as it is; a getLatestNews(false) that follows such a
\* pass while the entry has not expired serves the entry's articles without
\* asking the server.
C37_NoFallbackToCache ==
    [][/\ PassStep(TRUE) =>
             \A i \in 1..Len(feeds_) :
                (/\ feeds_[i].url \in call'.fetched
                 /\ feeds_[i].url \notin call'.stored
                 /\ Fresh(KeyOf(i)))
                => /\ Range(news_cache_[KeyOf(i)].articles)
                         \cap (Range(call'.all_articles) \cup Range(call'.result)) = {}
                   /\ KeyOf(i) \in DOMAIN news_cache_'
                   /\ news_cache_'[KeyOf(i)] = news_cache_[KeyOf(i)]
       /\ (Pass /\ call.force_refresh /\ PassStep(FALSE)) =>
             \A i \in 1..Len(feeds_) :
                (/\ feeds_[i].url \in call.fetched
                 /\ feeds_[i].url \notin call.stored
                 /\ feeds_[i].is_active
                 /\ Fresh(KeyOf(i)))
                => /\ feeds_[i].url \notin call'.fetched
                   /\ \A a \in Range(news_cache_[KeyOf(i)].articles) :
                         a \in Range(call'.all_articles)]_vars

\* a forced pass has failed on a feed with an unexpired entry stored earlier;
\* the list returned has articles of other feeds and none of the entry
C37_Witness ==
    /\ Pass /\ call.force_refresh
    /\ call.result # <<>>
    /\ \E i \in 1..Len(feeds_) :
          /\ feeds_[i].url \in call.fetched
          /\ feeds_[i].url \notin call.stored
          /\ Fresh(KeyOf(i))
          /\ news_cache_[KeyOf(i)].cached_at < now
          /\ Range(news_cache_[KeyOf(i)].articles) \cap Range(call.result) = {}

----------------------------------------------------------------------------
(* C38 *)

\* C38: a pass sets last_fetch_attempt = now of every feed it asks and leaves
\* every field of every other feed as it is, a feed served from the cache
\* included.
C38_MetadataOnlyOnFetch ==
    [][(passes' = passes + 1 /\ call'.op = "getLatestNews") =>
          /\ Len(feeds_') = Len(feeds_)
          /\ \A i \in 1..Len(feeds_) :
                IF feeds_[i].url \in call'.fetched
                THEN /\ feeds_'[i].last_fetch_attempt = now
                     /\ feeds_'[i].url = feeds_[i].url
                     /\ feeds_'[i].is_active = feeds_[i].is_active
                ELSE feeds_'[i] = feeds_[i]]_vars

\* a getLatestNews(false) has served a feed from its unexpired entry; the
\* feed carries the last_error of a forced refresh that failed after the
\* entry was stored
C38_Witness ==
    /\ Pass /\ ~call.force_refresh
    /\ \E i \in 1..Len(feeds_) :
          /\ KeyOf(i) \in call.looked_up
          /\ feeds_[i].url \notin call.fetched
          /\ Fresh(KeyOf(i))
          /\ Range(news_cache_[KeyOf(i)].articles) \subseteq Range(call.all_articles)
          /\ feeds_[i].last_error # ""
          /\ feeds_[i].last_fetch_attempt > news_cache_[KeyOf(i)].cached_at
          /\ feeds_[i].last_updated = news_cache_[KeyOf(i)].cached_at

(* C39 *)

\* h returns from the method it entered at pc
Returns(h, pc) == threads[h].pc = pc /\ threads'[h].pc = "idle"

\* C39: Initialize on a running engine returns false, starts no thread and
\* changes nothing of the engine; Shutdown on a stopped engine changes nothing;
\* when Shutdown returns on a running engine no update thread is left, running_
\* is false and Shutdown has called Cleanup of every widget once; no Update of
\* a widget is executed while the engine is stopped and no Shutdown is under
\* way; never more than one update thread exists.
C39_EngineLifecycle ==
    /\ [](Cardinality(Started) <= 1)
    /\ [][/\ \A h \in Hosts :
              /\ (threads[h].pc = "Initialize" /\ call.running_ /\ threads'[h] # threads[h]) =>
                    /\ threads'[h].pc = "idle" /\ threads'[h].ret = "false"
                    /\ call' = call
                    /\ \A u \in UpdateThreads : threads'[u] = threads[u]
              /\ (threads[h].pc = "Shutdown" /\ ~call.running_ /\ threads'[h] # threads[h]) =>
                    /\ threads'[h].pc = "idle" /\ threads'[h].cleanups = <<>>
                    /\ call' = call
                    /\ \A u \in UpdateThreads : threads'[u] = threads[u]
              /\ Returns(h, "ShutdownAllWidgets") =>
                    /\ Started' = {}
                    /\ ~call'.running_
                    /\ \A id \in DOMAIN call'.widgets_ :
                          Cardinality({n \in 1..Len(threads'[h].cleanups) :
                                         threads'[h].cleanups[n] = id}) = 1
          /\ \A u \in UpdateThreads :
                (threads[u].pc = "UpdateAllWidgets" /\ threads'[u].pc = "sleep_for") =>
                   \/ call.running_
                   \/ \E h \in Hosts : threads[h].pc = "join"]_vars

\* a Shutdown has returned on an engine whose thread had updated the news
\* widget, after an Initialize on the running engine had returned false
C39_Witness ==
    /\ world = "engine"
    /\ \E h \in Hosts :
          /\ threads[h] = Back("Shutdown", "void", <<"news">>)
    /\ \E h \in Hosts : threads[h] = Back("Initialize", "false", <<>>)
    /\ ~call.running_ /\ call.update_thread_ = "none"
    /\ "news" \in DOMAIN call.widgets_ /\ call.widgets_["news"].initialized

=============================================================================
